---- MODULE Spec2Model ----
(***************************************************************************)
(* Model of the Firework Rack Planner (src/firework2.py): the scene model, *)
(* the interaction controller, the history manager and the geometry        *)
(* kernel of class FireworkRackPlanner.                                    *)
(*                                                                         *)
(* The planner object is one record, `planner`, whose fields are the       *)
(* attributes of the FireworkRackPlanner instance.  Every handler of the   *)
(* class is an operator from a planner record (and the event or the user   *)
(* input) to the planner record it leaves behind; an action applies one    *)
(* handler.  The widgets the handlers drive are fields of the same record:  *)
(* the canvas bindings (bind_...), the Rack Inspector tree (tree_...), its  *)
(* pending <<TreeviewSelect>> event and the posted context menu.  `tk`      *)
(* holds the mouse buttons that are down.                                   *)
(*                                                                         *)
(* Numbers.  World coordinates are integers.  The geometry kernel works in *)
(* units of 1/GU of a world unit, so that 0.2 * diameter, diameter / 2 and *)
(* width / 2 are integers for every integer diameter.  zoom_level is the   *)
(* fraction <<n, d>>.  Every division is exact (ExactDiv).  None is 0 for  *)
(* an id and the empty sequence for a tuple or a dict.                     *)
(***************************************************************************)
EXTENDS Integers, Sequences, FiniteSets, TLC

\* planner: the FireworkRackPlanner instance; tk: the mouse buttons that are
\* down; uuid_next: the next id uuid4 hands out; budget: the events the
\* behaviour may still deliver; last_event: the handler of the event delivered
\* last; before: the planner as that event found it
VARIABLES planner, tk, uuid_next, budget, last_event, before

vars == <<planner, tk, uuid_next, budget, last_event, before>>

----------------------------------------------------------------------------
(* Constants of FireworkRackPlanner.__init__ *)

NoId == 0
MAX_UNDO_STEPS == 50
RACK_OUTER_PADDING == 5
SNAP_THRESHOLD == 10
DUPLICATE_OFFSET_X == 20
DUPLICATE_OFFSET_Y == 20
DUPLICATE_OFFSET_INCREMENT == 5
NUDGE_AMOUNT == 2
LINE_CLICK_HALO == 5
DEFAULT_TUBE_DIAMETER == 20
ROTATION_DEGREES == <<0, 90, 180, 270>>
FUSE_COLOR_CHOICES == <<"White", "Yellow", "Pink", "Blue", "Orange", "Green">>
FUSE_COLORS_MAP ==
  [n \in {"White", "Yellow", "Pink", "Blue", "Orange", "Green"} |->
     CASE n = "White" -> "white" [] n = "Yellow" -> "yellow" [] n = "Pink" -> "pink"
       [] n = "Blue" -> "lightblue" [] n = "Orange" -> "orange" [] n = "Green" -> "lightgreen"]
default_new_tube_color_value == FUSE_COLORS_MAP["Pink"]
LINE_TOOL_COLOR_DEFAULT == "darkred"
LINE_TOOL_WIDTH == 2
LINE_CONTEXT_COLORS == {"darkred", "blue", "darkgreen", "black"}
CONNECTION_COLOR == "#00FF00"
\* DEFAULT_TUBE_SPACING_RATIO = 0.2, DEFAULT_FAN_PADDING_RATIO = 0.2 and
\* DEFAULT_INTER_FAN_SPACING_RATIO = 0.5, in tenths.
TUBE_SPACING_TENTHS == 2
FAN_PADDING_TENTHS == 2
INTER_FAN_SPACING_TENTHS == 5
\* The smallest diameter a tube is hit-tested with: max(tube_diameter, 10).
MIN_EFFECTIVE_DIAMETER == 10
\* The shortest flow line, in canvas pixels.
MIN_LINE_PIXELS == 5

----------------------------------------------------------------------------
(* Arithmetic helpers *)

\* Python's a / b where the model's inputs make the quotient an integer; an
\* inexact quotient has no value, so no run silently rounds.
ExactDiv(a, b) == IF a % b = 0 THEN a \div b ELSE CHOOSE q \in {} : TRUE

Abs(a) == IF a < 0 THEN -a ELSE a
Min2(a, b) == IF a <= b THEN a ELSE b
Max2(a, b) == IF a >= b THEN a ELSE b
RECURSIVE MinOfSeq(_)
MinOfSeq(s) == IF Len(s) = 1 THEN s[1] ELSE Min2(s[1], MinOfSeq(Tail(s)))
RECURSIVE MaxOfSeq(_)
MaxOfSeq(s) == IF Len(s) = 1 THEN s[1] ELSE Max2(s[1], MaxOfSeq(Tail(s)))

SeqToSet(s) == {s[i] : i \in 1..Len(s)}
InSeq(x, s) == \E i \in 1..Len(s) : s[i] = x
\* list.remove(x): the first occurrence
RemoveFirst(s, x) ==
  LET i == CHOOSE k \in 1..Len(s) : s[k] = x /\ \A j \in 1..(k - 1) : s[j] # x
  IN SubSeq(s, 1, i - 1) \o SubSeq(s, i + 1, Len(s))

\* Geometry units per world unit.
GU == 4 * 5

----------------------------------------------------------------------------
(* Geometry kernel *)

Sin90(angle_deg) ==
  CASE angle_deg = 0 -> 0 [] angle_deg = 90 -> 1 [] angle_deg = 180 -> 0 [] angle_deg = 270 -> -1
Cos90(angle_deg) ==
  CASE angle_deg = 0 -> 1 [] angle_deg = 90 -> 0 [] angle_deg = 180 -> -1 [] angle_deg = 270 -> 0

\* _rotate_point, for the four angles a rack can have
rotate_point(x, y, angle_deg, cx, cy) ==
  LET s == Sin90(angle_deg)
      c == Cos90(angle_deg)
      dx == x - cx
      dy == y - cy
  IN <<dx * c - dy * s + cx, dx * s + dy * c + cy>>

\* ratio * tube_diameter, in geometry units
RatioOf(tenths, tube_diameter) == ExactDiv(tenths * tube_diameter * GU, 10)

\* The unrotated width of the tube group, in geometry units
tube_group_width(rack) ==
  LET d == rack.tube_diameter
      n == rack.x_tubes
  IN IF rack.type = "Crate"
       THEN n * d * GU + Max2(0, n - 1) * RatioOf(TUBE_SPACING_TENTHS, d)
     ELSE IF rack.type = "Fan"
       THEN n * (d * GU + 2 * RatioOf(FAN_PADDING_TENTHS, d))
            + Max2(0, n - 1) * RatioOf(INTER_FAN_SPACING_TENTHS, d)
     ELSE 0

tube_group_height(rack) ==
  LET d == rack.tube_diameter
      n == rack.y_tubes
  IN IF rack.type = "Crate"
       THEN n * d * GU + Max2(0, n - 1) * RatioOf(TUBE_SPACING_TENTHS, d)
     ELSE IF rack.type = "Fan"
       THEN (n * d * GU + Max2(0, n - 1) * RatioOf(TUBE_SPACING_TENTHS, d))
            + 2 * RatioOf(FAN_PADDING_TENTHS, d)
     ELSE 0

\* the unrotated width without the outer padding
unrotated_rack_width_unpadded(rack) == tube_group_width(rack)

unrotated_rack_width(rack) == tube_group_width(rack) + 2 * RACK_OUTER_PADDING * GU
unrotated_rack_height(rack) == tube_group_height(rack) + 2 * RACK_OUTER_PADDING * GU

\* the local centre of tube idx with the two axes exchanged
local_tube_center_transposed(rack, idx) ==
  LET d == rack.tube_diameter
      D == d * GU
      P == RACK_OUTER_PADDING * GU
      pitch == D + RatioOf(TUBE_SPACING_TENTHS, d)
      pad == IF rack.type = "Crate" THEN 0 ELSE RatioOf(FAN_PADDING_TENTHS, d)
  IN <<P + pad + (idx \div rack.x_tubes) * pitch + ExactDiv(D, 2),
       P + pad + (idx % rack.x_tubes) * pitch + ExactDiv(D, 2)>>

\* The unrotated local centre of tube idx (0-based), in geometry units.
\* Crate: idx counts c_idx inside r_idx; Fan: idx counts t_idx inside f_idx.
local_tube_center(rack, idx) ==
  LET d == rack.tube_diameter
      D == d * GU
      P == RACK_OUTER_PADDING * GU
  IN IF rack.type = "Crate"
       THEN LET r_idx == idx \div rack.x_tubes
                c_idx == idx % rack.x_tubes
                pitch == D + RatioOf(TUBE_SPACING_TENTHS, d)
            IN <<P + c_idx * pitch + ExactDiv(D, 2), P + r_idx * pitch + ExactDiv(D, 2)>>
       ELSE LET f_idx == idx \div rack.y_tubes
                t_idx == idx % rack.y_tubes
                pad == RatioOf(FAN_PADDING_TENTHS, d)
                seg_w == D + 2 * pad
                gap == RatioOf(INTER_FAN_SPACING_TENTHS, d)
                pitch == D + RatioOf(TUBE_SPACING_TENTHS, d)
            IN <<P + f_idx * (seg_w + gap) + pad + ExactDiv(D, 2),
                 P + pad + t_idx * pitch + ExactDiv(D, 2)>>

\* max - min of the coordinates in s
Extent(s) == MaxOfSeq(s) - MinOfSeq(s)

\* the world position of pt with (pos_x, pos_y) taken for the top-left corner
\* of the unrotated rectangle
rotated_point_world_from_corner(rack, w, h, pt) ==
  LET p == rotate_point(pt[1], pt[2], rack.rotation_angle, ExactDiv(w, 2), ExactDiv(h, 2))
  IN <<rack.pos_x * GU + p[1], rack.pos_y * GU + p[2]>>

\* the world position, in geometry units, of the unrotated local point pt of
\* a rack of unrotated size w x h: rotated about the local centre, then
\* moved so that the local centre lies on (pos_x, pos_y)
rotated_point_world(rack, w, h, pt) ==
  LET p == rotate_point(pt[1], pt[2], rack.rotation_angle, ExactDiv(w, 2), ExactDiv(h, 2))
  IN <<rack.pos_x * GU - ExactDiv(w, 2) + p[1], rack.pos_y * GU - ExactDiv(h, 2) + p[2]>>

\* one entry of tube_center_points_info
tube_center_point_info(idx, c, dia) == [idx |-> idx, cx |-> c[1], cy |-> c[2], dia |-> dia]

\* what _get_rack_dimensions_and_points returns for the rotated outline
rack_dimensions_and_points(rack, w, h, outline) ==
  [tubes |-> [i \in 1..(IF rack.type \in {"Crate", "Fan"}
                          THEN rack.x_tubes * rack.y_tubes ELSE 0) |->
                tube_center_point_info(
                  i - 1, rotated_point_world(rack, w, h, local_tube_center(rack, i - 1)),
                  Max2(rack.tube_diameter, MIN_EFFECTIVE_DIAMETER) * GU)],
   outline |-> outline, unrot_w |-> w, unrot_h |-> h,
   bbox_w |-> Extent([i \in 1..4 |-> outline[i][1]]),
   bbox_h |-> Extent([i \in 1..4 |-> outline[i][2]])]

\* the outline left as it is drawn before the rotation
rack_outline_unrotated(rack, w, h) ==
  [i \in 1..4 |->
     <<rack.pos_x * GU - ExactDiv(w, 2) + (IF i \in {2, 3} THEN w ELSE 0),
       rack.pos_y * GU - ExactDiv(h, 2) + (IF i \in {3, 4} THEN h ELSE 0)>>]

\* the rotated outline of a rack of unrotated size w x h
rack_outline(rack, w, h) ==
  [i \in 1..4 |->
     rotated_point_world(rack, w, h, <<IF i \in {2, 3} THEN w ELSE 0,
                                       IF i \in {3, 4} THEN h ELSE 0>>)]

\* the unrotated size (w, h) handed on
rack_geometry(rack, w, h) == rack_dimensions_and_points(rack, w, h, rack_outline(rack, w, h))

\* _get_rack_dimensions_and_points: tube centres (idx, cx, cy, dia), the
\* rotated outline, the unrotated size and the rotated bounding box, all in
\* geometry units.
get_rack_dimensions_and_points(rack) ==
  rack_geometry(rack, unrotated_rack_width(rack), unrotated_rack_height(rack))

\* _is_point_in_polygon: the ray-casting loop over i = 0..nv, p1 the vertex
\* of the previous round.  x <= xi is compared without the division.
RECURSIVE pip_loop(_, _, _, _, _, _)
pip_loop(x, y, poly, i, p1, ins) ==
  LET nv == Len(poly) IN
  IF i > nv THEN ins
  ELSE LET p2 == poly[(i % nv) + 1]
           in_band == /\ y > Min2(p1[2], p2[2])
                      /\ y <= Max2(p1[2], p2[2])
                      /\ x <= Max2(p1[1], p2[1])
           dy == p2[2] - p1[2]
           lhs == (x - p1[1]) * dy
           rhs == (y - p1[2]) * (p2[1] - p1[1])
           x_le_xi == IF dy > 0 THEN lhs <= rhs ELSE lhs >= rhs
           flip == in_band /\ (p1[1] = p2[1] \/ x_le_xi)
       IN pip_loop(x, y, poly, i + 1, p2, IF flip THEN ~ins ELSE ins)

is_point_in_polygon(x, y, poly) ==
  IF Len(poly) < 3 THEN FALSE ELSE pip_loop(x, y, poly, 0, poly[1], FALSE)

----------------------------------------------------------------------------
(* The planner object after __init__ *)

InitPlanner ==
  [racks_on_canvas |-> <<>>, selected_rack_ids |-> <<>>, dragging_rack_id |-> NoId,
   selected_flow_line_id |-> NoId, drag_offset_x |-> 0, drag_offset_y |-> 0,
   drag_start_positions |-> {},
   snap_to_grid_enabled |-> FALSE, grid_size_var |-> <<20>>, snap_to_racks_enabled |-> FALSE,
   flow_lines_on_canvas |-> <<>>, drawing_flow_line_mode |-> FALSE,
   flow_line_start_point |-> <<>>,
   tube_connections |-> <<>>, connecting_tubes_mode |-> FALSE,
   first_tube_for_connection |-> <<>>,
   undo_stack |-> <<>>, redo_stack |-> <<>>, drag_operation_pending_undo_state |-> <<>>,
   zoom_level |-> <<1, 1>>, pan_offset_x |-> 0, pan_offset_y |-> 0,
   is_panning |-> FALSE, pan_start_x |-> 0, pan_start_y |-> 0,
   pan_initial_offset_x |-> 0, pan_initial_offset_y |-> 0,
   context_menu_rack_id |-> NoId, context_menu_line_id |-> NoId,
   \* self.canvas: the handler bound to each pointer event ("" when unbound)
   bind_press1 |-> "on_canvas_press", bind_b1_motion |-> "on_canvas_drag",
   bind_release1 |-> "on_canvas_release", bind_shift_press1 |-> "on_canvas_shift_click",
   \* self.rack_inspector_tree: its items (iid = rack id) and its selection
   tree_items |-> <<>>, tree_selection |-> {},
   \* a <<TreeviewSelect>> event the tree has queued and Tk has not delivered
   treeview_select_pending |-> FALSE,
   \* the context menu tk_popup has posted ("" when none)
   posted_menu |-> "",
   \* the selection export_canvas_as_image has scheduled to restore
   export_restore |-> <<>>,
   \* an exception is propagating out of the running handler
   raised |-> FALSE]

\* next((r for r in self.racks_on_canvas if r['id'] == rack_id), None)
HasRack(st, rack_id) == \E i \in 1..Len(st.racks_on_canvas) : st.racks_on_canvas[i].id = rack_id
RackIndex(st, rack_id) ==
  CHOOSE i \in 1..Len(st.racks_on_canvas) :
    /\ st.racks_on_canvas[i].id = rack_id
    /\ \A j \in 1..(i - 1) : st.racks_on_canvas[j].id # rack_id
RackById(st, rack_id) == st.racks_on_canvas[RackIndex(st, rack_id)]
RackIds(st) == {st.racks_on_canvas[i].id : i \in 1..Len(st.racks_on_canvas)}

HasLine(st, line_id) ==
  \E i \in 1..Len(st.flow_lines_on_canvas) : st.flow_lines_on_canvas[i].id = line_id
LineIndex(st, line_id) ==
  CHOOSE i \in 1..Len(st.flow_lines_on_canvas) :
    /\ st.flow_lines_on_canvas[i].id = line_id
    /\ \A j \in 1..(i - 1) : st.flow_lines_on_canvas[j].id # line_id

\* self.drag_start_positions: a dict as a set of <<rack id, x, y>>
HasStart(st, rack_id) == \E e \in st.drag_start_positions : e[1] = rack_id
StartOf(st, rack_id) == CHOOSE e \in st.drag_start_positions : e[1] = rack_id

----------------------------------------------------------------------------
(* Rack Inspector tree and the property panel *)

\* _update_rack_list_panel_selection.  ttk's `selection add` of an item the
\* tree does not hold raises TclError ("Item ... not found") and selects
\* nothing; every selection command that succeeds queues <<TreeviewSelect>>.
update_rack_list_panel_selection(st) ==
  LET sel == SeqToSet(st.selected_rack_ids)
      ids_to_deselect == st.tree_selection \ sel
      s1 == IF ids_to_deselect # {}
              THEN [st EXCEPT !.tree_selection = @ \ ids_to_deselect,
                              !.treeview_select_pending = TRUE]
              ELSE st
  IN IF st.selected_rack_ids = <<>> THEN s1
     ELSE IF sel \subseteq SeqToSet(s1.tree_items)
       THEN [s1 EXCEPT !.tree_selection = @ \cup sel, !.treeview_select_pending = TRUE]
     ELSE [s1 EXCEPT !.raised = TRUE]

\* _update_ui_for_selection_state: with one rack selected that is not in the
\* scene, rack_to_load is None and rack_to_load.get raises AttributeError.
update_ui_for_selection_state(st) ==
  IF st.selected_flow_line_id # NoId THEN update_rack_list_panel_selection(st)
  ELSE IF Len(st.selected_rack_ids) = 1 /\ ~HasRack(st, st.selected_rack_ids[1])
    THEN [st EXCEPT !.raised = TRUE]
  ELSE update_rack_list_panel_selection(st)

\* _update_rack_list_panel: the tree is emptied (deleting a selected item
\* queues <<TreeviewSelect>>) and refilled from racks_on_canvas.
update_rack_list_panel(st) ==
  LET s1 == [st EXCEPT !.tree_items = [i \in 1..Len(st.racks_on_canvas) |->
                                         st.racks_on_canvas[i].id],
                       !.tree_selection = {},
                       !.treeview_select_pending = @ \/ st.tree_selection # {}]
  IN update_rack_list_panel_selection(s1)

\* f(st) unless an exception is already propagating
Then(st, f(_)) == IF st.raised THEN st ELSE f(st)

----------------------------------------------------------------------------
(* View transform *)

\* the pan offset added before the division: (canvas_x + pan_offset) / zoom_level
canvas_to_world_pan_first(st, canvas_x, canvas_y) ==
  <<ExactDiv((canvas_x + st.pan_offset_x) * st.zoom_level[2], st.zoom_level[1]),
    ExactDiv((canvas_y + st.pan_offset_y) * st.zoom_level[2], st.zoom_level[1])>>

\* canvas_x / zoom_level + pan_offset
canvas_to_world(st, canvas_x, canvas_y) ==
  <<ExactDiv(canvas_x * st.zoom_level[2], st.zoom_level[1]) + st.pan_offset_x,
    ExactDiv(canvas_y * st.zoom_level[2], st.zoom_level[1]) + st.pan_offset_y>>

\* (world_x - pan_offset) * zoom_level
world_to_canvas(st, world_x, world_y) ==
  <<ExactDiv((world_x - st.pan_offset_x) * st.zoom_level[1], st.zoom_level[2]),
    ExactDiv((world_y - st.pan_offset_y) * st.zoom_level[1], st.zoom_level[2])>>

\* length / zoom_level
ByZoom(st, length) == ExactDiv(length * st.zoom_level[2], st.zoom_level[1])

----------------------------------------------------------------------------
(* Hit testing *)

\* One round of _get_line_under_mouse: is the world point within the halo of
\* the segment?  dist_w <= world_halo is compared squared and without the
\* division by the squared length.
line_hit(st, line_data, world_x, world_y) ==
  LET wx1 == line_data.x1
      wy1 == line_data.y1
      wx2 == line_data.x2
      wy2 == line_data.y2
      world_halo == ByZoom(st, LINE_CLICK_HALO)
      in_box == /\ Min2(wx1, wx2) - world_halo <= world_x
                /\ world_x <= Max2(wx1, wx2) + world_halo
                /\ Min2(wy1, wy2) - world_halo <= world_y
                /\ world_y <= Max2(wy1, wy2) + world_halo
      dx_w == wx2 - wx1
      dy_w == wy2 - wy1
      len2 == dx_w * dx_w + dy_w * dy_w
      t_num == (world_x - wx1) * dx_w + (world_y - wy1) * dy_w
      d1 == (world_x - wx1) * (world_x - wx1) + (world_y - wy1) * (world_y - wy1)
      d2 == (world_x - wx2) * (world_x - wx2) + (world_y - wy2) * (world_y - wy2)
      h2 == world_halo * world_halo
  IN /\ in_box
     /\ IF len2 = 0 \/ t_num <= 0 THEN d1 <= h2
        ELSE IF t_num >= len2 THEN d2 <= h2
        ELSE d1 * len2 - t_num * t_num <= h2 * len2

MaxOfSet(S) == CHOOSE i \in S : \A j \in S : j <= i
MinOfSet(S) == CHOOSE i \in S : \A j \in S : i <= j
\* the last position of flags that holds TRUE, 0 if none: what a loop over
\* reversed(...) that breaks at the first hit finds
LastTrue(flags) ==
  IF \E i \in DOMAIN flags : flags[i] THEN MaxOfSet({i \in DOMAIN flags : flags[i]}) ELSE 0

\* the id of the line at position i, None for position 0
line_id_at(lines, i) == IF i = 0 THEN NoId ELSE lines[i].id

\* _get_line_under_mouse: the id of the last drawn line under the point
get_line_under_mouse(st, world_x, world_y) ==
  line_id_at(st.flow_lines_on_canvas,
             LastTrue([i \in 1..Len(st.flow_lines_on_canvas) |->
                         line_hit(st, st.flow_lines_on_canvas[i], world_x, world_y)]))

\* is the world point inside the disc of the tube?
tube_hit(tube, world_x, world_y) ==
  LET dx == world_x * GU - tube.cx
      dy == world_y * GU - tube.cy
  IN 4 * (dx * dx + dy * dy) <= tube.dia * tube.dia

\* the index of the first of tubes, in list order, under the world point and
\* below limit; -1 if none
first_tube_hit_of(tubes, limit, world_x, world_y) ==
  LET hits == {i \in 1..Len(tubes) :
                 tube_hit(tubes[i], world_x, world_y) /\ tubes[i].idx < limit}
  IN IF hits = {} THEN -1 ELSE tubes[MinOfSet(hits)].idx

\* the first tube of the rack under the world point; -1 if none
first_tube_hit(rack, world_x, world_y) ==
  first_tube_hit_of(get_rack_dimensions_and_points(rack).tubes,
                    rack.x_tubes * rack.y_tubes, world_x, world_y)

\* (rack id, tube index) for the last rack with a tube hit, <<>> if none
topmost_tube(racks, tube_hits) ==
  LET i == LastTrue([k \in 1..Len(racks) |-> tube_hits[k] >= 0])
  IN IF i = 0 THEN <<>> ELSE <<racks[i].id, tube_hits[i]>>

\* _get_tube_at_canvas_coords, from the world point on
get_tube_at_world(st, w) ==
  topmost_tube(st.racks_on_canvas,
               [k \in 1..Len(st.racks_on_canvas) |->
                  first_tube_hit(st.racks_on_canvas[k], w[1], w[2])])

\* _get_tube_at_canvas_coords: <<rack id, tube index>> of the topmost rack
\* with a tube under the point, <<>> for (None, None)
get_tube_at_canvas_coords(st, canvas_x, canvas_y) ==
  get_tube_at_world(st, canvas_to_world(st, canvas_x, canvas_y))

\* the loop over racks_on_canvas run forwards: the position of the bottom
\* rack under the point, 0 if none
rack_under_point_bottom(st, world_x, world_y) ==
  LET hits == {i \in 1..Len(st.racks_on_canvas) :
                 is_point_in_polygon(world_x * GU, world_y * GU,
                   get_rack_dimensions_and_points(st.racks_on_canvas[i]).outline)}
  IN IF hits = {} THEN 0 ELSE MinOfSet(hits)

\* for rack in reversed(self.racks_on_canvas): if _is_point_in_polygon(...):
\* the position in racks_on_canvas of the topmost rack under the point, 0 if none
rack_under_point(st, world_x, world_y) ==
  LastTrue([i \in 1..Len(st.racks_on_canvas) |->
              is_point_in_polygon(world_x * GU, world_y * GU,
                get_rack_dimensions_and_points(st.racks_on_canvas[i]).outline)])

----------------------------------------------------------------------------
(* History manager *)

\* _capture_current_state recording the scene and the selection but not the
\* view
capture_current_state_without_view(st) ==
  [racks |-> st.racks_on_canvas, flow_lines |-> st.flow_lines_on_canvas,
   tube_connections |-> st.tube_connections, selected_rack_ids |-> st.selected_rack_ids,
   selected_flow_line_id |-> st.selected_flow_line_id,
   canvas_view |-> [zoom |-> <<1, 1>>, pan_x |-> 0, pan_y |-> 0]]

\* _capture_current_state
capture_current_state(st) ==
  [racks |-> st.racks_on_canvas, flow_lines |-> st.flow_lines_on_canvas,
   tube_connections |-> st.tube_connections, selected_rack_ids |-> st.selected_rack_ids,
   selected_flow_line_id |-> st.selected_flow_line_id,
   canvas_view |-> [zoom |-> st.zoom_level, pan_x |-> st.pan_offset_x,
                    pan_y |-> st.pan_offset_y]]

\* _restore_state_from_history without the reset of the partial gestures
restore_state_from_history_keeps_gesture(st, history_entry) ==
  LET s1 == [st EXCEPT !.racks_on_canvas = history_entry.racks,
                       !.flow_lines_on_canvas = history_entry.flow_lines,
                       !.tube_connections = history_entry.tube_connections,
                       !.selected_rack_ids = history_entry.selected_rack_ids,
                       !.selected_flow_line_id = history_entry.selected_flow_line_id,
                       !.zoom_level = history_entry.canvas_view.zoom,
                       !.pan_offset_x = history_entry.canvas_view.pan_x,
                       !.pan_offset_y = history_entry.canvas_view.pan_y]
  IN Then(update_rack_list_panel(s1), update_ui_for_selection_state)

\* _restore_state_from_history
restore_state_from_history(st, history_entry) ==
  LET s1 == [st EXCEPT !.racks_on_canvas = history_entry.racks,
                       !.flow_lines_on_canvas = history_entry.flow_lines,
                       !.tube_connections = history_entry.tube_connections,
                       !.selected_rack_ids = history_entry.selected_rack_ids,
                       !.selected_flow_line_id = history_entry.selected_flow_line_id,
                       !.zoom_level = history_entry.canvas_view.zoom,
                       !.pan_offset_x = history_entry.canvas_view.pan_x,
                       !.pan_offset_y = history_entry.canvas_view.pan_y,
                       !.dragging_rack_id = NoId,
                       !.drag_start_positions = {},
                       !.drag_operation_pending_undo_state = <<>>,
                       !.flow_line_start_point = <<>>,
                       !.first_tube_for_connection = <<>>]
  IN Then(update_rack_list_panel(s1), update_ui_for_selection_state)

\* _push_to_undo_stack evicting one entry too late
push_to_undo_stack_late_eviction(st, state_to_push) ==
  LET pushed == Append(st.undo_stack, state_to_push)
  IN [st EXCEPT !.undo_stack = IF Len(pushed) > MAX_UNDO_STEPS + 1 THEN Tail(pushed)
                               ELSE pushed,
                !.redo_stack = <<>>]

\* _push_to_undo_stack without redo_stack.clear()
push_to_undo_stack_keeps_redo(st, state_to_push) ==
  LET pushed == Append(st.undo_stack, state_to_push)
  IN [st EXCEPT !.undo_stack = IF Len(pushed) > MAX_UNDO_STEPS THEN Tail(pushed) ELSE pushed]

\* _push_to_undo_stack without the test against MAX_UNDO_STEPS
push_to_undo_stack_unbounded(st, state_to_push) ==
  [st EXCEPT !.undo_stack = Append(@, state_to_push), !.redo_stack = <<>>]

\* _push_to_undo_stack
push_to_undo_stack(st, state_to_push) ==
  LET pushed == Append(st.undo_stack, state_to_push)
  IN [st EXCEPT !.undo_stack = IF Len(pushed) > MAX_UNDO_STEPS THEN Tail(pushed) ELSE pushed,
                !.redo_stack = <<>>]

\* _record_state_for_undo
record_state_for_undo(st) == push_to_undo_stack(st, capture_current_state(st))

\* undo_action testing the stack only after it has pushed onto redo_stack
undo_action_late_guard(st) ==
  IF st.undo_stack = <<>>
    THEN [st EXCEPT !.redo_stack = Append(@, capture_current_state(st))]
  ELSE restore_state_from_history(
         [st EXCEPT !.redo_stack = Append(@, capture_current_state(st)),
                    !.undo_stack = SubSeq(@, 1, Len(@) - 1)],
         st.undo_stack[Len(st.undo_stack)])

\* undo_action
undo_action(st) ==
  IF st.undo_stack = <<>> THEN st
  ELSE LET s1 == [st EXCEPT !.redo_stack = Append(@, capture_current_state(st))]
           entry == s1.undo_stack[Len(s1.undo_stack)]
           s2 == [s1 EXCEPT !.undo_stack = SubSeq(@, 1, Len(@) - 1)]
       IN restore_state_from_history(s2, entry)

\* redo_action
redo_action(st) ==
  IF st.redo_stack = <<>> THEN st
  ELSE LET s1 == [st EXCEPT !.undo_stack = Append(@, capture_current_state(st))]
           entry == s1.redo_stack[Len(s1.redo_stack)]
           s2 == [s1 EXCEPT !.redo_stack = SubSeq(@, 1, Len(@) - 1)]
       IN restore_state_from_history(s2, entry)

----------------------------------------------------------------------------
(* Interaction modes *)

\* toggle_connect_tubes_mode, the branch taken with the mode off
connect_tubes_mode_off(st) ==
  [st EXCEPT !.first_tube_for_connection = <<>>,
             !.bind_press1 = "on_canvas_press", !.bind_b1_motion = "on_canvas_drag",
             !.bind_release1 = "on_canvas_release",
             !.bind_shift_press1 = "on_canvas_shift_click"]

\* toggle_draw_flow_line_mode, the branch taken with the mode off
draw_flow_line_mode_off(st) ==
  [st EXCEPT !.flow_line_start_point = <<>>,
             !.bind_press1 = "on_canvas_press", !.bind_b1_motion = "on_canvas_drag",
             !.bind_release1 = "on_canvas_release",
             !.bind_shift_press1 = "on_canvas_shift_click"]

\* the canvas bindings of the drawing mode
bind_line_mode(st) ==
  [st EXCEPT !.bind_press1 = "on_canvas_press_line_mode",
             !.bind_b1_motion = "on_flow_line_drag_preview",
             !.bind_release1 = "", !.bind_shift_press1 = ""]

\* toggle_draw_flow_line_mode, the branch taken with the mode on
draw_flow_line_mode_on(st) ==
  Then(update_ui_for_selection_state(
         [st EXCEPT !.selected_rack_ids = <<>>, !.selected_flow_line_id = NoId,
                    !.first_tube_for_connection = <<>>]),
       bind_line_mode)

\* toggle_draw_flow_line_mode, after the flag is flipped
draw_flow_line_mode_flipped(st) ==
  IF st.drawing_flow_line_mode
    THEN draw_flow_line_mode_on(
           \* toggle_connect_tubes_mode(force_off=True)
           IF st.connecting_tubes_mode
             THEN connect_tubes_mode_off([st EXCEPT !.connecting_tubes_mode = FALSE])
             ELSE st)
    ELSE draw_flow_line_mode_off(st)

\* toggle_draw_flow_line_mode
toggle_draw_flow_line_mode(st) ==
  draw_flow_line_mode_flipped([st EXCEPT !.drawing_flow_line_mode = ~@])

\* the canvas bindings of the connecting mode
bind_connect_mode(st) ==
  [st EXCEPT !.bind_press1 = "on_canvas_press_connect_tubes_mode",
             !.bind_b1_motion = "", !.bind_release1 = "", !.bind_shift_press1 = ""]

\* toggle_connect_tubes_mode, the branch taken with the mode on
connect_tubes_mode_on(st) ==
  Then(update_ui_for_selection_state(
         [st EXCEPT !.selected_rack_ids = <<>>, !.selected_flow_line_id = NoId,
                    !.flow_line_start_point = <<>>]),
       bind_connect_mode)

\* toggle_connect_tubes_mode, after the flag is set
connect_tubes_mode_flipped(st) ==
  IF st.connecting_tubes_mode
    THEN connect_tubes_mode_on(
           \* toggle_draw_flow_line_mode(), which finds the drawing mode on
           IF st.drawing_flow_line_mode
             THEN draw_flow_line_mode_off([st EXCEPT !.drawing_flow_line_mode = FALSE])
             ELSE st)
    ELSE connect_tubes_mode_off(st)

\* toggle_connect_tubes_mode
toggle_connect_tubes_mode(st, force_off) ==
  connect_tubes_mode_flipped(
    [st EXCEPT !.connecting_tubes_mode = IF force_off THEN FALSE ELSE ~@])

\* on_canvas_press_connect_tubes_mode, from the hit test on; clicked is
\* what _get_tube_at_canvas_coords returned, uuid4 the id uuid.uuid4() returns
connect_tubes_click(st, clicked, uuid4) ==
  IF clicked = <<>> THEN [st EXCEPT !.first_tube_for_connection = <<>>]
  ELSE IF st.first_tube_for_connection = <<>>
    THEN [st EXCEPT !.first_tube_for_connection = clicked]
  ELSE IF st.first_tube_for_connection = clicked THEN st
  ELSE [record_state_for_undo(
          [st EXCEPT !.tube_connections =
                       Append(@, [id |-> uuid4,
                                  source_rack_id |-> st.first_tube_for_connection[1],
                                  source_tube_idx |-> st.first_tube_for_connection[2],
                                  target_rack_id |-> clicked[1],
                                  target_tube_idx |-> clicked[2],
                                  color |-> CONNECTION_COLOR])])
        EXCEPT !.first_tube_for_connection = <<>>]

\* on_canvas_press_connect_tubes_mode
on_canvas_press_connect_tubes_mode(st, event, uuid4) ==
  IF ~st.connecting_tubes_mode THEN st
  ELSE connect_tubes_click(st, get_tube_at_canvas_coords(st, event.x, event.y), uuid4)

\* the length tested in world units: math.hypot(wx2 - wx1, wy2 - wy1) < 5
line_too_short_in_world(st, wx1, wy1, wx2, wy2) ==
  (wx2 - wx1) * (wx2 - wx1) + (wy2 - wy1) * (wy2 - wy1) < MIN_LINE_PIXELS * MIN_LINE_PIXELS

\* math.hypot(wx2 - wx1, wy2 - wy1) * zoom_level < 5, squared
line_too_short(st, wx1, wy1, wx2, wy2) ==
  ((wx2 - wx1) * (wx2 - wx1) + (wy2 - wy1) * (wy2 - wy1)) * st.zoom_level[1] * st.zoom_level[1]
    < MIN_LINE_PIXELS * MIN_LINE_PIXELS * st.zoom_level[2] * st.zoom_level[2]

\* on_canvas_press_line_mode, from the conversion of the click on
line_mode_click(st, w, uuid4) ==
  IF st.flow_line_start_point = <<>> THEN [st EXCEPT !.flow_line_start_point = w]
  ELSE IF line_too_short(st, st.flow_line_start_point[1], st.flow_line_start_point[2],
                         w[1], w[2])
    THEN st
  ELSE toggle_draw_flow_line_mode(
         [record_state_for_undo(
            [st EXCEPT !.flow_lines_on_canvas =
                         Append(@, [id |-> uuid4, x1 |-> st.flow_line_start_point[1],
                                    y1 |-> st.flow_line_start_point[2],
                                    x2 |-> w[1], y2 |-> w[2],
                                    color |-> LINE_TOOL_COLOR_DEFAULT,
                                    width |-> LINE_TOOL_WIDTH, label |-> ""])])
          EXCEPT !.flow_line_start_point = <<>>])

\* on_canvas_press_line_mode
on_canvas_press_line_mode(st, event, uuid4) ==
  IF ~st.drawing_flow_line_mode THEN st
  ELSE line_mode_click(st, canvas_to_world(st, event.x, event.y), uuid4)

\* clear_all_flow_lines; confirm is the answer to the askyesno box
clear_all_flow_lines(st, confirm) ==
  IF st.flow_lines_on_canvas = <<>> \/ ~confirm THEN st
  ELSE update_ui_for_selection_state(
         [record_state_for_undo(st) EXCEPT !.flow_lines_on_canvas = <<>>,
                                           !.selected_flow_line_id = NoId])

\* clear_all_tube_connections
clear_all_tube_connections(st, confirm) ==
  IF st.tube_connections = <<>> \/ ~confirm THEN st
  ELSE update_ui_for_selection_state(
         [record_state_for_undo(st) EXCEPT !.tube_connections = <<>>,
                                           !.first_tube_for_connection = <<>>])

----------------------------------------------------------------------------
(* Selecting and dragging on the canvas *)

\* on_canvas_press, the branch for a press on the rack `clicked`
press_on_rack(st, event, w, clicked) ==
  LET s1 == [st EXCEPT !.selected_flow_line_id = NoId]
      sel == s1.selected_rack_ids
      is_multi_drag_candidate == InSeq(clicked.id, sel) /\ Len(sel) > 1
      starts == IF is_multi_drag_candidate
                  THEN {<<sel[i], RackById(s1, sel[i]).pos_x, RackById(s1, sel[i]).pos_y>> :
                          i \in {k \in 1..Len(sel) : HasRack(s1, sel[k])}}
                  ELSE {<<clicked.id, clicked.pos_x, clicked.pos_y>>}
      new_sel == IF event.ctrl /\ ~event.shift
                   THEN IF InSeq(clicked.id, sel) THEN RemoveFirst(sel, clicked.id)
                        ELSE Append(sel, clicked.id)
                 ELSE IF ~event.shift /\ (~InSeq(clicked.id, sel) \/ Len(sel) > 1)
                   THEN <<clicked.id>>
                 ELSE sel
      IsSel(r) == InSeq(r.id, new_sel)
      NotSel(r) == ~InSeq(r.id, new_sel)
      selected_racks_to_move == SelectSeq(s1.racks_on_canvas, IsSel)
      new_racks == IF new_sel # <<>> /\ InSeq(clicked.id, new_sel)
                     THEN SelectSeq(s1.racks_on_canvas, NotSel)
                          \o Append(RemoveFirst(selected_racks_to_move, clicked), clicked)
                     ELSE s1.racks_on_canvas
  IN [s1 EXCEPT !.drag_operation_pending_undo_state = <<capture_current_state(s1)>>,
                !.dragging_rack_id = clicked.id,
                !.drag_offset_x = w[1] - clicked.pos_x,
                !.drag_offset_y = w[2] - clicked.pos_y,
                !.drag_start_positions = starts,
                !.selected_rack_ids = new_sel,
                !.racks_on_canvas = new_racks]

\* on_canvas_press, its last statement: the panel follows the selection
\* unless the press is a shift-click off every line
press_update_ui(st, event, clicked_line_id) ==
  IF ~event.shift \/ clicked_line_id # NoId THEN update_ui_for_selection_state(st) ELSE st

\* on_canvas_press whose branch for a clicked line leaves selected_rack_ids
press_on_keeps_racks(st, event, w, clicked_line_id, ri) ==
  press_update_ui(
    IF clicked_line_id # NoId
      THEN [st EXCEPT !.selected_flow_line_id = IF event.ctrl THEN @ ELSE clicked_line_id,
                      !.dragging_rack_id = NoId,
                      !.drag_operation_pending_undo_state = <<>>]
    ELSE IF ri # 0 THEN press_on_rack(st, event, w, st.racks_on_canvas[ri])
    ELSE IF ~event.shift
      THEN [st EXCEPT !.selected_rack_ids = IF event.ctrl THEN @ ELSE <<>>,
                      !.selected_flow_line_id = IF event.ctrl THEN @ ELSE NoId,
                      !.dragging_rack_id = NoId,
                      !.drag_operation_pending_undo_state = <<>>,
                      !.drag_start_positions = {}]
    ELSE st,
    event, clicked_line_id)

\* on_canvas_press, from the hit tests on: clicked_line_id is what
\* _get_line_under_mouse returned, ri the position of the rack the loop over
\* reversed(racks_on_canvas) stopped at (0 if none)
press_on(st, event, w, clicked_line_id, ri) ==
  press_update_ui(
    IF clicked_line_id # NoId
      THEN [st EXCEPT !.selected_flow_line_id = IF event.ctrl THEN @ ELSE clicked_line_id,
                      !.selected_rack_ids = <<>>,
                      !.dragging_rack_id = NoId,
                      !.drag_operation_pending_undo_state = <<>>]
    ELSE IF ri # 0 THEN press_on_rack(st, event, w, st.racks_on_canvas[ri])
    ELSE IF ~event.shift
      THEN [st EXCEPT !.selected_rack_ids = IF event.ctrl THEN @ ELSE <<>>,
                      !.selected_flow_line_id = IF event.ctrl THEN @ ELSE NoId,
                      !.dragging_rack_id = NoId,
                      !.drag_operation_pending_undo_state = <<>>,
                      !.drag_start_positions = {}]
    ELSE st,
    event, clicked_line_id)

\* on_canvas_press, from the world point of the press on
press_at(st, event, w) ==
  press_on(st, event, w, get_line_under_mouse(st, w[1], w[2]),
           rack_under_point(st, w[1], w[2]))

\* on_canvas_press; event = [x, y, ctrl, shift] in canvas coordinates
on_canvas_press(st, event) ==
  IF st.drawing_flow_line_mode \/ st.connecting_tubes_mode THEN st
  ELSE press_at(st, event, canvas_to_world(st, event.x, event.y))

\* p / g cut off instead of rounded
RoundDivDown(p, g) == p \div g

\* round(p / g): Python rounds a half to the even neighbour
RoundDiv(p, g) ==
  LET q == p \div g
      r == p % g
  IN IF 2 * r < g THEN q
     ELSE IF 2 * r > g THEN q + 1
     ELSE IF q % 2 = 0 THEN q ELSE q + 1

\* the bounding box of an outline
outline_box(o) ==
  [min_x |-> MinOfSeq([k \in 1..4 |-> o[k][1]]), max_x |-> MaxOfSeq([k \in 1..4 |-> o[k][1]]),
   min_y |-> MinOfSeq([k \in 1..4 |-> o[k][2]]), max_y |-> MaxOfSeq([k \in 1..4 |-> o[k][2]])]

\* _snap_rack, one axis of one round with the gap taken the wrong way round:
\* the rack is pushed away from the edge
snap_axis_away(drag_min, drag_max, other_min, other_max, thr, current, snapped) ==
  IF Abs(drag_min - other_max) < thr THEN current - (other_max - drag_min)
  ELSE IF Abs(drag_max - other_min) < thr THEN current - (other_min - drag_max)
  ELSE IF Abs(drag_min - other_min) < thr THEN current - (other_min - drag_min)
  ELSE IF Abs(drag_max - other_max) < thr THEN current - (other_max - drag_max)
  ELSE snapped

\* _snap_rack, one axis of one round: the four edge tests in their order
snap_axis(drag_min, drag_max, other_min, other_max, thr, current, snapped) ==
  IF Abs(drag_min - other_max) < thr THEN current + (other_max - drag_min)
  ELSE IF Abs(drag_max - other_min) < thr THEN current + (other_min - drag_max)
  ELSE IF Abs(drag_min - other_min) < thr THEN current + (other_min - drag_min)
  ELSE IF Abs(drag_max - other_max) < thr THEN current + (other_max - drag_max)
  ELSE snapped

\* _snap_rack, one round against the box of another rack
snap_round(drag_box, other_box, thr, current, snapped) ==
  <<snap_axis(drag_box.min_x, drag_box.max_x, other_box.min_x, other_box.max_x, thr,
              current[1], snapped[1]),
    snap_axis(drag_box.min_y, drag_box.max_y, other_box.min_y, other_box.max_y, thr,
              current[2], snapped[2])>>

\* _snap_rack, the rounds of `for other_rack in self.racks_on_canvas` from
\* round i on.  Positions are in geometry units.
RECURSIVE snap_loop(_, _, _, _, _, _)
snap_loop(st, i, ids_in_drag_group, drag_box, current, snapped) ==
  IF i > Len(st.racks_on_canvas) THEN snapped
  ELSE snap_loop(st, i + 1, ids_in_drag_group, drag_box, current,
         IF st.racks_on_canvas[i].id \in ids_in_drag_group THEN snapped
         ELSE snap_round(drag_box,
                outline_box(get_rack_dimensions_and_points(st.racks_on_canvas[i]).outline),
                ByZoom(st, SNAP_THRESHOLD) * GU, current, snapped))

\* a position in geometry units, in world units
to_world_units(r) == <<ExactDiv(r[1], GU), ExactDiv(r[2], GU)>>

\* _snap_rack; the position goes in and comes out in world units
snap_rack(st, dragged_rack_config, current_x_world, current_y_world, primary_drag_id_for_group) ==
  to_world_units(
    snap_loop(st, 1,
      IF primary_drag_id_for_group # NoId /\ Len(st.selected_rack_ids) > 1
        THEN SeqToSet(st.selected_rack_ids) ELSE {dragged_rack_config.id},
      outline_box(get_rack_dimensions_and_points(
                    [dragged_rack_config EXCEPT !.pos_x = current_x_world,
                                                !.pos_y = current_y_world]).outline),
      <<current_x_world * GU, current_y_world * GU>>,
      <<current_x_world * GU, current_y_world * GU>>))

\* on_canvas_drag, one rack of its last loop: the rack goes to its start
\* position plus the displacement d of the dragged rack
moved_rack(st, r, d) ==
  [r EXCEPT !.pos_x = StartOf(st, r.id)[2] + d[1], !.pos_y = StartOf(st, r.id)[3] + d[2]]

\* on_canvas_drag, its last loop: every selected rack with a start position
\* is moved (next() finds the first rack with the id)
move_selected(st, snapped, orig) ==
  IF st.drag_start_positions # {} /\ Len(st.selected_rack_ids) > 0
    THEN [st EXCEPT !.racks_on_canvas =
            [i \in 1..Len(@) |->
               IF /\ InSeq(@[i].id, st.selected_rack_ids) /\ HasStart(st, @[i].id)
                  /\ RackIndex(st, @[i].id) = i
                 THEN moved_rack(st, @[i], <<snapped[1] - orig[1], snapped[2] - orig[2]>>)
                 ELSE @[i]]]
    ELSE st

\* on_canvas_drag, the snapping of the proposed position of the dragged rack
snapped_position(st, proposed) ==
  IF st.snap_to_racks_enabled
    THEN snap_rack(st, RackById(st, st.dragging_rack_id), proposed[1], proposed[2],
                   IF Len(st.selected_rack_ids) > 1 THEN st.dragging_rack_id ELSE NoId)
    ELSE proposed

\* on_canvas_drag, the grid snapping of one coordinate.  grid_size_var holds
\* the text of the Grid Size entry: <<n>> spells the integer n, and int() of
\* the text <<>> raises the ValueError that is passed over
grid_snapped(st, proposed) ==
  IF st.snap_to_grid_enabled /\ st.grid_size_var # <<>> /\ st.grid_size_var[1] > 0
    THEN RoundDiv(proposed, st.grid_size_var[1]) * st.grid_size_var[1]
    ELSE proposed

\* on_canvas_drag, from the proposed position of the dragged rack on
drag_to(st, proposed) ==
  move_selected(st,
    snapped_position(st, <<grid_snapped(st, proposed[1]), grid_snapped(st, proposed[2])>>),
    IF HasStart(st, st.dragging_rack_id)
      THEN <<StartOf(st, st.dragging_rack_id)[2], StartOf(st, st.dragging_rack_id)[3]>>
      ELSE proposed)

\* the world point w less the drag offset
less_drag_offset(st, w) == <<w[1] - st.drag_offset_x, w[2] - st.drag_offset_y>>

\* on_canvas_drag
on_canvas_drag(st, event) ==
  IF \/ st.selected_flow_line_id # NoId
     \/ st.drawing_flow_line_mode \/ st.connecting_tubes_mode \/ st.is_panning
    THEN st
  ELSE IF st.dragging_rack_id = NoId THEN st
  ELSE IF ~HasRack(st, st.dragging_rack_id) THEN st
  ELSE drag_to(st, less_drag_offset(st, canvas_to_world(st, event.x, event.y)))

\* the Snap to Grid and Snap to Other Racks checkbuttons, and the Grid Size
\* entry with the text `text` typed in
snap_grid_cb(st) == [st EXCEPT !.snap_to_grid_enabled = ~@]
snap_racks_cb(st) == [st EXCEPT !.snap_to_racks_enabled = ~@]
grid_size_entry(st, text) == [st EXCEPT !.grid_size_var = text]

\* on_canvas_release, its last line
clear_drag_state(st) ==
  [st EXCEPT !.dragging_rack_id = NoId, !.drag_start_positions = {},
             !.drag_operation_pending_undo_state = <<>>]

\* on_canvas_release: has a selected rack left its start position?
drag_ended_state_different(st) ==
  /\ st.drag_operation_pending_undo_state # <<>>
  /\ st.drag_start_positions # {}
  /\ \E i \in 1..Len(st.selected_rack_ids) :
       /\ HasRack(st, st.selected_rack_ids[i]) /\ HasStart(st, st.selected_rack_ids[i])
       /\ \/ RackById(st, st.selected_rack_ids[i]).pos_x # StartOf(st, st.selected_rack_ids[i])[2]
          \/ RackById(st, st.selected_rack_ids[i]).pos_y # StartOf(st, st.selected_rack_ids[i])[3]

\* on_canvas_release
on_canvas_release(st, event) ==
  IF \/ st.selected_flow_line_id # NoId
     \/ st.drawing_flow_line_mode \/ st.connecting_tubes_mode \/ st.is_panning
    THEN st
  ELSE Then(IF st.dragging_rack_id = NoId THEN st
            ELSE Then(update_ui_for_selection_state(
                        IF drag_ended_state_different(st)
                          THEN push_to_undo_stack(st, st.drag_operation_pending_undo_state[1])
                          ELSE st),
                      update_rack_list_panel),
            clear_drag_state)

----------------------------------------------------------------------------
(* Editing commands *)

\* racks_on_canvas with f applied to the first rack whose id is rack_id
UpdateRack(st, rack_id, f(_)) ==
  [st EXCEPT !.racks_on_canvas[RackIndex(st, rack_id)] = f(@)]

\* the colour before color_value in FUSE_COLOR_CHOICES
next_fuse_color_backwards(color_value) ==
  LET names == {i \in 1..Len(FUSE_COLOR_CHOICES) :
                  FUSE_COLORS_MAP[FUSE_COLOR_CHOICES[i]] = color_value}
      current_choice_idx == IF names = {} THEN 1 ELSE CHOOSE i \in names : TRUE
  IN FUSE_COLORS_MAP[FUSE_COLOR_CHOICES[((current_choice_idx + Len(FUSE_COLOR_CHOICES) - 2)
                                          % Len(FUSE_COLOR_CHOICES)) + 1]]

\* the colour that follows color_value in FUSE_COLOR_CHOICES
next_fuse_color(color_value) ==
  LET names == {i \in 1..Len(FUSE_COLOR_CHOICES) :
                  FUSE_COLORS_MAP[FUSE_COLOR_CHOICES[i]] = color_value}
      current_choice_idx == IF names = {} THEN 1 ELSE CHOOSE i \in names : TRUE
  IN FUSE_COLORS_MAP[FUSE_COLOR_CHOICES[(current_choice_idx % Len(FUSE_COLOR_CHOICES)) + 1]]

\* on_canvas_shift_click
on_canvas_shift_click(st, event) ==
  IF st.drawing_flow_line_mode \/ st.connecting_tubes_mode THEN st
  ELSE IF Len(st.selected_rack_ids) # 1 THEN st
  ELSE IF ~HasRack(st, st.selected_rack_ids[1]) THEN st
  ELSE LET rack == RackById(st, st.selected_rack_ids[1])
           w == canvas_to_world(st, event.x, event.y)
           tubes == get_rack_dimensions_and_points(rack).tubes
           hits == {i \in 1..Len(tubes) :
                      tube_hit(tubes[i], w[1], w[2]) /\ tubes[i].idx < Len(rack.tubes)}
       IN IF hits = {} THEN st
          ELSE LET i == CHOOSE k \in hits : \A j \in hits : k <= j
                   Recolor(r) == [r EXCEPT !.tubes[i].color = next_fuse_color(@)]
                   s1 == UpdateRack(st, rack.id, Recolor)
               IN update_ui_for_selection_state(record_state_for_undo(s1))

\* the tube_connections whose source is none of the racks in deleted_rack_ids
connections_without_source_only(st, deleted_rack_ids) ==
  LET Keep(c) == c.source_rack_id \notin deleted_rack_ids
  IN SelectSeq(st.tube_connections, Keep)

\* the tube_connections that touch none of the racks in deleted_rack_ids
connections_without(st, deleted_rack_ids) ==
  LET Keep(c) == c.source_rack_id \notin deleted_rack_ids
                 /\ c.target_rack_id \notin deleted_rack_ids
  IN SelectSeq(st.tube_connections, Keep)

\* delete_selected_item
delete_selected_item(st, confirm) ==
  IF st.selected_flow_line_id # NoId
    THEN IF HasLine(st, st.selected_flow_line_id)
           THEN IF ~confirm THEN st
                ELSE LET s1 == record_state_for_undo(st)
                         i == LineIndex(s1, s1.selected_flow_line_id)
                         s2 == [s1 EXCEPT !.flow_lines_on_canvas =
                                            SubSeq(@, 1, i - 1) \o SubSeq(@, i + 1, Len(@)),
                                          !.selected_flow_line_id = NoId]
                     IN update_ui_for_selection_state(s2)
           ELSE update_ui_for_selection_state([st EXCEPT !.selected_flow_line_id = NoId])
  ELSE IF st.selected_rack_ids # <<>>
    THEN IF ~confirm THEN st
         ELSE LET s1 == record_state_for_undo(st)
                  deleted_rack_ids_set == SeqToSet(s1.selected_rack_ids)
                  Survives(r) == r.id \notin deleted_rack_ids_set
                  s2 == [s1 EXCEPT !.racks_on_canvas = SelectSeq(@, Survives),
                                   !.dragging_rack_id =
                                      IF @ \in deleted_rack_ids_set THEN NoId ELSE @,
                                   !.selected_rack_ids = <<>>,
                                   !.tube_connections =
                                      connections_without(s1, deleted_rack_ids_set)]
              IN Then(update_ui_for_selection_state(s2), update_rack_list_panel)
  ELSE st

\* clear_all_racks
clear_all_racks(st, confirm) ==
  IF ~confirm THEN st
  ELSE LET s1 == record_state_for_undo(st)
           s2 == [s1 EXCEPT !.racks_on_canvas = <<>>, !.selected_rack_ids = <<>>,
                            !.dragging_rack_id = NoId,
                            !.tube_connections = connections_without(s1, RackIds(s1))]
       IN Then(update_ui_for_selection_state(s2), update_rack_list_panel)

\* the rotation before current_angle in ROTATION_DEGREES
next_rotation_backwards(current_angle) ==
  LET at == {i \in 1..Len(ROTATION_DEGREES) : ROTATION_DEGREES[i] = current_angle}
  IN IF at = {} THEN ROTATION_DEGREES[1]
     ELSE ROTATION_DEGREES[(((CHOOSE i \in at : TRUE) + 2) % Len(ROTATION_DEGREES)) + 1]

\* the angle that follows current_angle in ROTATION_DEGREES
next_rotation(current_angle) ==
  LET at == {i \in 1..Len(ROTATION_DEGREES) : ROTATION_DEGREES[i] = current_angle}
  IN IF at = {} THEN ROTATION_DEGREES[1]
     ELSE ROTATION_DEGREES[((CHOOSE i \in at : TRUE) % Len(ROTATION_DEGREES)) + 1]

\* rotate_selected_racks_action
rotate_selected_racks_action(st) ==
  IF st.selected_flow_line_id # NoId THEN st
  ELSE IF st.selected_rack_ids = <<>> THEN st
  ELSE LET s1 == record_state_for_undo(st)
           Rotated(r) == IF InSeq(r.id, s1.selected_rack_ids) /\ r = RackById(s1, r.id)
                           THEN [r EXCEPT !.rotation_angle = next_rotation(@)]
                           ELSE r
       IN [s1 EXCEPT !.racks_on_canvas = [i \in 1..Len(@) |-> Rotated(s1.racks_on_canvas[i])]]

\* handle_rotate_shortcut
handle_rotate_shortcut(st) ==
  IF st.selected_rack_ids # <<>> /\ st.selected_flow_line_id = NoId
    THEN rotate_selected_racks_action(st) ELSE st

\* duplicate_selected_racks, one round of its loop per selected rack from i
\* on; the k-th copy gets the id uuid4 + k
RECURSIVE duplicate_loop(_, _, _, _)
duplicate_loop(st, i, uuid4, made) ==
  IF i > Len(st.selected_rack_ids) THEN made
  ELSE IF ~HasRack(st, st.selected_rack_ids[i])
    THEN duplicate_loop(st, i + 1, uuid4, made)
  ELSE LET original_rack == RackById(st, st.selected_rack_ids[i])
           new_rack_config ==
             [original_rack EXCEPT
                !.id = uuid4 + Len(made),
                !.name = @ \o " (Copy)",
                !.pos_x = @ + ByZoom(st, DUPLICATE_OFFSET_X)
                            + ByZoom(st, (i - 1) * DUPLICATE_OFFSET_INCREMENT),
                !.pos_y = @ + ByZoom(st, DUPLICATE_OFFSET_Y)
                            + ByZoom(st, (i - 1) * DUPLICATE_OFFSET_INCREMENT)]
       IN duplicate_loop(st, i + 1, uuid4, Append(made, new_rack_config))

\* duplicate_selected_racks
duplicate_selected_racks(st, uuid4) ==
  IF st.selected_flow_line_id # NoId THEN st
  ELSE IF st.selected_rack_ids = <<>> THEN st
  ELSE LET s1 == record_state_for_undo(st)
           newly_created_racks_configs == duplicate_loop(s1, 1, uuid4, <<>>)
       IN IF newly_created_racks_configs = <<>> THEN s1
          ELSE LET s2 == [s1 EXCEPT
                            !.racks_on_canvas = @ \o newly_created_racks_configs,
                            !.selected_rack_ids =
                               [k \in 1..Len(newly_created_racks_configs) |->
                                  newly_created_racks_configs[k].id],
                            !.selected_flow_line_id = NoId]
               IN Then(update_ui_for_selection_state(s2), update_rack_list_panel)

\* duplicate_selected_racks_shortcut_handler
duplicate_selected_racks_shortcut_handler(st, uuid4) ==
  IF st.selected_rack_ids # <<>> /\ st.selected_flow_line_id = NoId
    THEN duplicate_selected_racks(st, uuid4) ELSE st

\* nudge_selected_racks
nudge_selected_racks(st, dx, dy) ==
  IF st.selected_flow_line_id # NoId THEN st
  ELSE IF st.selected_rack_ids = <<>> THEN st
  ELSE LET s1 == record_state_for_undo(st)
           sel == s1.selected_rack_ids
           \* a rack id listed n times is moved n times
           Times(r) == Cardinality({k \in 1..Len(sel) : sel[k] = r.id})
           Nudged(r) == IF r = RackById(s1, r.id)
                          THEN [r EXCEPT !.pos_x = @ + Times(r) * dx,
                                         !.pos_y = @ + Times(r) * dy]
                          ELSE r
           moved_count == Cardinality({k \in 1..Len(sel) : HasRack(s1, sel[k])})
           s2 == [s1 EXCEPT !.racks_on_canvas =
                              [i \in 1..Len(@) |-> Nudged(s1.racks_on_canvas[i])]]
       IN IF moved_count = 0 THEN s2
          ELSE LET s3 == IF Len(sel) = 1 THEN update_ui_for_selection_state(s2) ELSE s2
               IN Then(s3, update_rack_list_panel)

----------------------------------------------------------------------------
(* Property panel, Rack Inspector, context menus, dialogs *)

\* the single selected rack the property panel edits, if the scene has it
EditsOneRack(st) ==
  /\ Len(st.selected_rack_ids) = 1 /\ st.selected_flow_line_id = NoId
  /\ HasRack(st, st.selected_rack_ids[1])

\* apply_rack_name_from_ui; rack_name_var is the text of the name entry
apply_rack_name_from_ui(st, rack_name_var) ==
  IF EditsOneRack(st) /\ RackById(st, st.selected_rack_ids[1]).name # rack_name_var
    THEN LET Renamed(r) == [r EXCEPT !.name = rack_name_var]
             s1 == UpdateRack(st, st.selected_rack_ids[1], Renamed)
         IN update_rack_list_panel(record_state_for_undo(s1))
    ELSE st

\* apply_flow_line_label_from_ui
apply_flow_line_label_from_ui(st, flow_line_label_var) ==
  IF st.selected_flow_line_id # NoId /\ HasLine(st, st.selected_flow_line_id)
    THEN LET i == LineIndex(st, st.selected_flow_line_id)
         IN IF st.flow_lines_on_canvas[i].label # flow_line_label_var
              THEN record_state_for_undo(
                     [st EXCEPT !.flow_lines_on_canvas[i].label = flow_line_label_var])
              ELSE st
    ELSE st

\* apply_position_from_ui, the entries holding integers
apply_position_from_ui(st, new_x, new_y) ==
  IF EditsOneRack(st)
    THEN LET rack == RackById(st, st.selected_rack_ids[1])
         IN IF rack.pos_x # new_x \/ rack.pos_y # new_y
              THEN LET Placed(r) == [r EXCEPT !.pos_x = new_x, !.pos_y = new_y]
                       s1 == UpdateRack(st, rack.id, Placed)
                   IN update_rack_list_panel(record_state_for_undo(s1))
              ELSE st
    ELSE st

\* apply_rotation_from_ui; with the selected rack missing, rack.get raises
apply_rotation_from_ui(st, rotation_var) ==
  IF Len(st.selected_rack_ids) = 1 /\ st.selected_flow_line_id = NoId
    THEN IF ~HasRack(st, st.selected_rack_ids[1]) THEN [st EXCEPT !.raised = TRUE]
         ELSE IF RackById(st, st.selected_rack_ids[1]).rotation_angle # rotation_var
           THEN LET Turned(r) == [r EXCEPT !.rotation_angle = rotation_var]
                IN record_state_for_undo(UpdateRack(st, st.selected_rack_ids[1], Turned))
         ELSE st
    ELSE st

\* the tree's selection, in the order of its items
tree_selection_list(st) ==
  LET Selected(iid) == iid \in st.tree_selection
  IN SelectSeq(st.tree_items, Selected)

\* on_rack_inspector_select
on_rack_inspector_select(st) ==
  LET newly_selected_ids == tree_selection_list(st)
  IN IF \/ SeqToSet(st.selected_rack_ids) # SeqToSet(newly_selected_ids)
        \/ Len(st.selected_rack_ids) # Len(newly_selected_ids)
       THEN update_ui_for_selection_state(
              [st EXCEPT !.selected_rack_ids = newly_selected_ids,
                         !.selected_flow_line_id = NoId])
       ELSE st

\* show_context_menu; posted_menu is the menu tk_popup has posted
show_context_menu(st, event) ==
  IF st.drawing_flow_line_mode \/ st.connecting_tubes_mode THEN st
  ELSE LET w == canvas_to_world(st, event.x, event.y)
           clicked_line_id == get_line_under_mouse(st, w[1], w[2])
           ri == rack_under_point(st, w[1], w[2])
       IN IF clicked_line_id # NoId
            THEN LET s1 == update_ui_for_selection_state(
                             [st EXCEPT !.selected_flow_line_id = clicked_line_id,
                                        !.selected_rack_ids = <<>>,
                                        !.context_menu_line_id = clicked_line_id])
                 IN IF s1.raised THEN s1 ELSE [s1 EXCEPT !.posted_menu = "line"]
          ELSE IF ri # 0
            THEN LET clicked == st.racks_on_canvas[ri]
                     s1 == [st EXCEPT !.context_menu_rack_id = clicked.id]
                     s2 == IF ~InSeq(clicked.id, s1.selected_rack_ids)
                             THEN update_ui_for_selection_state(
                                    [s1 EXCEPT !.selected_rack_ids = <<clicked.id>>,
                                               !.selected_flow_line_id = NoId])
                             ELSE s1
                 IN IF s2.raised THEN s2 ELSE [s2 EXCEPT !.posted_menu = "rack"]
          ELSE st

\* change_selected_line_color
change_selected_line_color(st, new_color) ==
  LET line_id_to_change == IF st.context_menu_line_id # NoId THEN st.context_menu_line_id
                           ELSE st.selected_flow_line_id
      s1 == IF line_id_to_change # NoId /\ HasLine(st, line_id_to_change)
              THEN LET i == LineIndex(st, line_id_to_change)
                   IN IF st.flow_lines_on_canvas[i].color # new_color
                        THEN update_ui_for_selection_state(record_state_for_undo(
                               [st EXCEPT !.flow_lines_on_canvas[i].color = new_color]))
                        ELSE st
              ELSE st
  IN IF s1.raised THEN s1 ELSE [s1 EXCEPT !.context_menu_line_id = NoId]

\* TubeRecolorDialog / TubeTypeDialog: edit == <<>> when the dialog is closed
\* without confirming, <<tube index, field, value>> when the user changes one
\* tube of the dialog's copy and confirms (_confirm_changes).
tube_dialog(st, rack_id, edit) ==
  IF edit = <<>> THEN st
  ELSE LET Edited(r) == [r EXCEPT !.tubes =
                           [k \in 1..Len(@) |->
                              IF k = edit[1] + 1 THEN [@[k] EXCEPT ![edit[2]] = edit[3]]
                              ELSE @[k]]]
       IN update_ui_for_selection_state(UpdateRack(st, rack_id, Edited))

\* _draw_tubes_on_dialog_canvas_initial of TubeRecolorDialog and of
\* TubeTypeDialog: the (dialog_visual_col, dialog_visual_row) of tube i for a
\* rack of original_configured_cols x original_configured_rows tubes shown at
\* visual_rotation_angle
dialog_visual_cell(rack_type, x_tubes, y_tubes, visual_rotation_angle, i) ==
  LET original_configured_cols == x_tubes
      original_configured_rows == y_tubes
  IN
  IF rack_type = "Crate"
    THEN LET original_col_idx == i % original_configured_cols
             original_row_idx == i \div original_configured_cols
         IN CASE visual_rotation_angle = 0 -> <<original_col_idx, original_row_idx>>
              [] visual_rotation_angle = 90 ->
                   <<original_row_idx, original_configured_cols - 1 - original_col_idx>>
              [] visual_rotation_angle = 180 ->
                   <<original_configured_cols - 1 - original_col_idx,
                     original_configured_rows - 1 - original_row_idx>>
              [] visual_rotation_angle = 270 ->
                   <<original_configured_rows - 1 - original_row_idx, original_col_idx>>
    ELSE LET num_fans == original_configured_cols
             tubes_per_fan == original_configured_rows
             segment_idx == i \div tubes_per_fan
             tube_in_segment_idx == i % tubes_per_fan
         IN CASE visual_rotation_angle = 90 ->
                   <<tube_in_segment_idx, num_fans - 1 - segment_idx>>
              [] visual_rotation_angle = 180 ->
                   <<num_fans - 1 - segment_idx, tubes_per_fan - 1 - tube_in_segment_idx>>
              [] visual_rotation_angle = 270 ->
                   <<tubes_per_fan - 1 - tube_in_segment_idx, segment_idx>>
              [] OTHER -> <<segment_idx, tube_in_segment_idx>>

\* open_tube_recolor_dialog and open_tube_type_dialog
open_tube_dialog(st, edit) ==
  IF Len(st.selected_rack_ids) # 1 THEN st
  ELSE IF ~HasRack(st, st.selected_rack_ids[1]) THEN st
  ELSE tube_dialog(record_state_for_undo(st), st.selected_rack_ids[1], edit)

\* open_tube_recolor_dialog_ctx and open_tube_type_dialog_ctx
open_tube_dialog_ctx(st, edit) ==
  IF /\ st.context_menu_rack_id # NoId
     /\ InSeq(st.context_menu_rack_id, st.selected_rack_ids)
     /\ Len(st.selected_rack_ids) = 1
    THEN open_tube_dialog(st, edit) ELSE st

\* duplicate_selected_racks_ctx
duplicate_selected_racks_ctx(st, uuid4) ==
  IF st.selected_rack_ids # <<>> THEN duplicate_selected_racks(st, uuid4) ELSE st

\* rotate_selected_racks_action_ctx
rotate_selected_racks_action_ctx(st) ==
  IF st.selected_rack_ids # <<>> THEN rotate_selected_racks_action(st) ELSE st

\* _generate_default_tube_data
generate_default_tube_data(num_tubes) ==
  [k \in 1..num_tubes |->
     [color |-> default_new_tube_color_value, angle |-> 0, lift_time |-> 0,
      type |-> "Standard", cue |-> ""]]

\* add_rack_to_list recording the state before it looks at the entries
add_rack_to_list_records_first(st, form, uuid4) ==
  IF ~form.numeric THEN record_state_for_undo(st)
  ELSE IF form.rack_type = "" \/ form.x_tubes <= 0 \/ form.y_tubes <= 0
          \/ form.tube_diameter <= 2
    THEN record_state_for_undo(st)
  ELSE Then(Then([record_state_for_undo(st) EXCEPT
                    !.racks_on_canvas =
                       Append(@, [id |-> uuid4, name |-> form.rack_type \o " Rack",
                                  type |-> form.rack_type, x_tubes |-> form.x_tubes,
                                  y_tubes |-> form.y_tubes, pos_x |-> form.pos_x,
                                  pos_y |-> form.pos_y, tube_diameter |-> form.tube_diameter,
                                  rotation_angle |-> form.rotation,
                                  tubes |-> generate_default_tube_data(
                                              form.x_tubes * form.y_tubes)]),
                    !.selected_rack_ids = <<uuid4>>,
                    !.selected_flow_line_id = NoId],
                 update_ui_for_selection_state), update_rack_list_panel)

\* add_rack_to_list; form holds the entries of the property panel, numeric
\* telling whether int() and float() accept them
add_rack_to_list(st, form, uuid4) ==
  IF ~form.numeric THEN st
  ELSE IF form.rack_type = "" \/ form.x_tubes <= 0 \/ form.y_tubes <= 0
          \/ form.tube_diameter <= 2
    THEN st
  ELSE LET rack_name == IF form.rack_name # "" THEN form.rack_name
                        ELSE form.rack_type \o " Rack "
                             \o ToString(Len(st.racks_on_canvas) + 1)
           rack_config ==
             [id |-> uuid4, name |-> rack_name, type |-> form.rack_type,
              x_tubes |-> form.x_tubes, y_tubes |-> form.y_tubes,
              pos_x |-> form.pos_x, pos_y |-> form.pos_y,
              tube_diameter |-> form.tube_diameter, rotation_angle |-> form.rotation,
              tubes |-> generate_default_tube_data(form.x_tubes * form.y_tubes)]
           s1 == record_state_for_undo(st)
           s2 == [s1 EXCEPT !.racks_on_canvas = Append(@, rack_config),
                            !.selected_rack_ids = <<rack_config.id>>,
                            !.selected_flow_line_id = NoId]
           s3 == IF s2.connecting_tubes_mode \/ s2.drawing_flow_line_mode
                   THEN Then(toggle_connect_tubes_mode(s2, TRUE), toggle_draw_flow_line_mode)
                   ELSE s2
           s4 == Then(Then(s3, update_ui_for_selection_state), update_rack_list_panel)
       \* except Exception: the error goes to the status bar
       IN [s4 EXCEPT !.raised = FALSE]

----------------------------------------------------------------------------
(* View navigation *)

RECURSIVE Gcd(_, _)
Gcd(a, b) == IF b = 0 THEN a ELSE Gcd(b, a % b)
\* the fraction n / d in lowest terms
Frac(n, d) == <<n \div Gcd(n, d), d \div Gcd(n, d)>>
FracLess(a, b) == a[1] * b[2] < b[1] * a[2]

ZOOM_STEP == <<6, 5>>
MIN_ZOOM == <<1, 10>>
MAX_ZOOM == <<5, 1>>

\* max(MIN_ZOOM, min(MAX_ZOOM, zoom))
clamp_zoom(zoom) ==
  LET capped == IF FracLess(MAX_ZOOM, zoom) THEN MAX_ZOOM ELSE zoom
  IN IF FracLess(capped, MIN_ZOOM) THEN MIN_ZOOM ELSE capped

\* the zoom level after a wheel step: multiplied or divided by ZOOM_STEP,
\* then clamped
wheel_zoom(zoom_level, event) ==
  clamp_zoom(IF event.delta > 0
               THEN Frac(zoom_level[1] * ZOOM_STEP[1], zoom_level[2] * ZOOM_STEP[2])
             ELSE IF event.delta < 0
               THEN Frac(zoom_level[1] * ZOOM_STEP[2], zoom_level[2] * ZOOM_STEP[1])
             ELSE zoom_level)

\* on_mouse_wheel without the correction of the pan offset
on_mouse_wheel_keeps_pan(st, event) ==
  IF ~event.ctrl THEN st
  ELSE [st EXCEPT !.zoom_level = wheel_zoom(st.zoom_level, event)]

\* on_mouse_wheel; event = [x, y, ctrl, delta]
on_mouse_wheel(st, event) ==
  IF ~event.ctrl THEN st
  ELSE LET world_before == canvas_to_world(st, event.x, event.y)
           s1 == [st EXCEPT !.zoom_level = wheel_zoom(st.zoom_level, event)]
           world_after == canvas_to_world(s1, event.x, event.y)
       IN [s1 EXCEPT !.pan_offset_x = @ + (world_before[1] - world_after[1]),
                     !.pan_offset_y = @ + (world_before[2] - world_after[2])]

\* on_pan_start
on_pan_start(st, event) ==
  [st EXCEPT !.is_panning = TRUE, !.pan_start_x = event.x, !.pan_start_y = event.y,
             !.pan_initial_offset_x = st.pan_offset_x,
             !.pan_initial_offset_y = st.pan_offset_y]

\* on_pan_motion
on_pan_motion(st, event) ==
  IF st.is_panning
    THEN [st EXCEPT !.pan_offset_x = st.pan_initial_offset_x
                                      - ByZoom(st, event.x - st.pan_start_x),
                    !.pan_offset_y = st.pan_initial_offset_y
                                      - ByZoom(st, event.y - st.pan_start_y)]
    ELSE st

\* on_pan_end
on_pan_end(st) == [st EXCEPT !.is_panning = FALSE]

\* reset_canvas_view
reset_canvas_view(st) ==
  [st EXCEPT !.zoom_level = <<1, 1>>, !.pan_offset_x = 0, !.pan_offset_y = 0]

----------------------------------------------------------------------------
(* Persistence and export *)

\* Values of a JSON document, tagged with what isinstance tells apart
JDict(fields) == [json |-> "dict", v |-> fields]
JList(items) == [json |-> "list", v |-> items]
JNumber(n) == [json |-> "number", v |-> n]
\* a string that spells the integer n, and a string that spells no number
JNumeral(n) == [json |-> "string", v |-> <<n>>]
JText == [json |-> "string", v |-> <<>>]
JNull == [json |-> "null", v |-> <<>>]
\* a file json.load cannot decode
Undecodable == [json |-> "undecodable", v |-> <<>>]

\* float(x) and int(x) of a JSON value: the number, or the exception raised
to_number(x) ==
  IF x.json = "number" THEN [error |-> "", v |-> x.v]
  ELSE IF x.json = "string"
    THEN IF x.v # <<>> THEN [error |-> "", v |-> x.v[1]]
         ELSE [error |-> "ValueError", v |-> 0]
  ELSE [error |-> "TypeError", v |-> 0]

\* the first exception the conversions xs raise, in their order ("" if none)
RECURSIVE first_error(_)
first_error(xs) ==
  IF xs = <<>> THEN ""
  ELSE IF to_number(Head(xs)).error # "" THEN to_number(Head(xs)).error
  ELSE first_error(Tail(xs))

\* save_layout: a rack as json.dump writes it
saved_rack(r) ==
  JDict([id |-> r.id, name |-> r.name, type |-> r.type,
         x_tubes |-> JNumber(r.x_tubes), y_tubes |-> JNumber(r.y_tubes),
         pos_x |-> JNumber(r.pos_x), pos_y |-> JNumber(r.pos_y),
         tube_diameter |-> JNumber(r.tube_diameter),
         rotation_angle |-> JNumber(r.rotation_angle), tubes |-> JList(r.tubes)])

\* the colour load_layout keeps for a tube
validated_color(color) ==
  IF \E n \in DOMAIN FUSE_COLORS_MAP : FUSE_COLORS_MAP[n] = color THEN color
  ELSE default_new_tube_color_value

\* load_layout: the tubes it gives a rack whose conversions have succeeded
validated_tubes(d, num_total_tubes) ==
  LET keys == DOMAIN d
  IN IF "tubes" \in keys /\ d.tubes.json = "list"
       THEN [k \in 1..Len(d.tubes.v) |-> [d.tubes.v[k] EXCEPT !.color = validated_color(@)]]
     ELSE IF "tube_colors" \in keys /\ d.tube_colors.json = "list"
       THEN [k \in 1..Len(d.tube_colors.v) |->
               [color |-> validated_color(d.tube_colors.v[k]), angle |-> 0,
                lift_time |-> 0, type |-> "Standard", cue |-> ""]]
     ELSE generate_default_tube_data(num_total_tubes)

\* load_layout, the rack built from the dict d of entry i (from 0)
converted_rack(d, i, tube_diameter, rotation_angle) ==
  [id |-> d.id,
   name |-> IF "name" \in DOMAIN d THEN d.name ELSE d.type \o " " \o ToString(i + 1),
   type |-> d.type,
   x_tubes |-> to_number(d.x_tubes).v, y_tubes |-> to_number(d.y_tubes).v,
   pos_x |-> to_number(d.pos_x).v, pos_y |-> to_number(d.pos_y).v,
   tube_diameter |-> to_number(tube_diameter).v,
   rotation_angle |-> to_number(rotation_angle).v,
   tubes |-> validated_tubes(d, to_number(d.x_tubes).v * to_number(d.y_tubes).v)]

\* load_layout, one round of `for i, rack_data_loaded in enumerate(...)`:
\* the racks it appends (none when the entry is skipped) and the exception
\* that leaves the loop.  ValueError is caught in the loop; float(None) and
\* int(None) raise TypeError, which is not.
validated_rack(rack_data_loaded, i) ==
  IF rack_data_loaded.json # "dict" THEN [error |-> "", racks |-> <<>>]
  ELSE LET d == rack_data_loaded.v
           keys == DOMAIN d
           required_keys == {"id", "type", "x_tubes", "y_tubes", "pos_x", "pos_y"}
           tube_diameter == IF "tube_diameter" \in keys THEN d.tube_diameter
                            ELSE JNumber(DEFAULT_TUBE_DIAMETER)
           rotation_angle == IF "rotation_angle" \in keys THEN d.rotation_angle
                             ELSE JNumber(0)
       IN IF ~(required_keys \subseteq keys /\ ("tube_colors" \in keys \/ "tubes" \in keys))
            THEN [error |-> "", racks |-> <<>>]
          ELSE LET error == first_error(<<d.pos_x, d.pos_y, d.x_tubes, d.y_tubes,
                                          tube_diameter, rotation_angle>>)
               IN IF error = "ValueError" THEN [error |-> "", racks |-> <<>>]
                  ELSE IF error # "" THEN [error |-> error, racks |-> <<>>]
                  ELSE [error |-> "",
                        racks |-> <<converted_rack(d, i, tube_diameter, rotation_angle)>>]

\* load_layout, the loop over loaded_racks_raw from entry i on
RECURSIVE validated_racks(_, _)
validated_racks(loaded_racks_raw, i) ==
  IF i >= Len(loaded_racks_raw) THEN [error |-> "", racks |-> <<>>]
  ELSE LET this == validated_rack(loaded_racks_raw[i + 1], i)
       IN IF this.error # "" THEN this
          ELSE [validated_racks(loaded_racks_raw, i + 1) EXCEPT !.racks = this.racks \o @]

\* load_layout, the statements after the loop
loaded_racks_shown(st, loaded_racks_validated) ==
  LET s2 == [st EXCEPT !.racks_on_canvas = loaded_racks_validated,
                       !.selected_rack_ids = <<>>,
                       !.selected_flow_line_id = NoId]
      s3 == Then(update_ui_for_selection_state(s2), update_rack_list_panel)
  IN IF s3.raised THEN s3
     ELSE [s3 EXCEPT !.undo_stack = <<>>, !.redo_stack = <<>>]

\* load_layout, from the loop on: s1 is the planner with the flow lines, the
\* connections and the view of the document
racks_loaded(s1, loaded_racks_raw) ==
  IF validated_racks(loaded_racks_raw, 0).error # "" THEN [s1 EXCEPT !.raised = TRUE]
  ELSE loaded_racks_shown(s1, validated_racks(loaded_racks_raw, 0).racks)

\* load_layout, a document of the current format
dict_loaded(st, d) ==
  LET keys == DOMAIN d
      view == IF "canvas_view" \in keys THEN d.canvas_view
              ELSE [zoom_level |-> <<1, 1>>, pan_offset_x |-> 0, pan_offset_y |-> 0]
  IN racks_loaded(
       [st EXCEPT !.flow_lines_on_canvas = IF "flow_lines" \in keys THEN d.flow_lines ELSE <<>>,
                  !.tube_connections =
                     IF "tube_connections" \in keys THEN d.tube_connections ELSE <<>>,
                  !.zoom_level = view.zoom_level,
                  !.pan_offset_x = view.pan_offset_x,
                  !.pan_offset_y = view.pan_offset_y],
       IF "racks" \in keys THEN d.racks ELSE <<>>)

\* load_layout, a document of the old format: the list of the racks
list_loaded(st, items) ==
  racks_loaded([st EXCEPT !.flow_lines_on_canvas = <<>>, !.tube_connections = <<>>,
                          !.zoom_level = <<1, 1>>, !.pan_offset_x = 0, !.pan_offset_y = 0],
               items)

\* load_layout, its try block; raised tells that the except clause is reached
load_layout_try(st, loaded_data) ==
  IF loaded_data.json = "list" THEN list_loaded(st, loaded_data.v)
  ELSE IF loaded_data.json = "dict" THEN dict_loaded(st, loaded_data.v)
  ELSE [st EXCEPT !.raised = TRUE]

\* load_layout; file == <<>> when the file dialog is cancelled, else
\* <<loaded_data>>, loaded_data what json.load makes of the file
load_layout(st, file) ==
  IF file = <<>> THEN st
  ELSE [load_layout_try(st, file[1]) EXCEPT !.raised = FALSE]

\* export_canvas_as_image with Pillow installed; chosen tells whether the
\* file dialog returned a path
export_canvas_as_image(st, chosen) ==
  IF ~chosen THEN st
  ELSE [st EXCEPT !.export_restore = <<[racks |-> st.selected_rack_ids,
                                        line |-> st.selected_flow_line_id]>>,
                  !.selected_rack_ids = <<>>, !.selected_flow_line_id = NoId]

\* _perform_grab_and_restore_selection, 250 ms after the export
perform_grab_and_restore_selection(st) ==
  update_ui_for_selection_state(
    [st EXCEPT !.selected_rack_ids = st.export_restore[1].racks,
               !.selected_flow_line_id = st.export_restore[1].line,
               !.export_restore = <<>>])

----------------------------------------------------------------------------
(* Inputs of the model *)

\* the most events a behaviour of Spec delivers
MaxSteps == 4
\* the most events a behaviour of SpecDrag and of SpecConnect delivers
MaxDragSteps == 5
MaxConnectSteps == 7
\* the most events a behaviour of SpecRestore delivers
MaxRestoreSteps == 5
\* the most events a behaviour of SpecLoad delivers
MaxLoadSteps == 3
\* the most events a behaviour of SpecSnap delivers
MaxSnapSteps == 5
\* the most events a behaviour of SpecView delivers
MaxViewSteps == 4
\* the largest coordinate of the points the view transforms are compared on
MaxViewCoordinate == 30
\* the most events a behaviour of SpecGeometry delivers
MaxGeometrySteps == 4
\* the most columns (fan segments) and rows (tubes per segment) of a rack of
\* SpecGeometry
MaxTubesX == 3
MaxTubesY == 3

\* canvas points the pointer is pressed, moved to and released at: on tube 0
\* of the crate of SampleLayout, on tube 0 of its fan, on its flow line and
\* on empty canvas
CanvasPoints == {<<40, 50>>, <<100, 40>>, <<70, 100>>, <<150, 100>>}

\* what the property panel holds when Add Rack is clicked: a crate, a fan
\* without segments, a crate without rows, a crate of tubes too thin, and
\* an entry that is no number
RackForms ==
  {[numeric |-> TRUE, rack_type |-> "Crate", x_tubes |-> 2, y_tubes |-> 1, pos_x |-> 50,
    pos_y |-> 50, tube_diameter |-> DEFAULT_TUBE_DIAMETER, rotation |-> 0, rack_name |-> ""],
   [numeric |-> TRUE, rack_type |-> "Fan", x_tubes |-> 0, y_tubes |-> 2, pos_x |-> 100,
    pos_y |-> 50, tube_diameter |-> DEFAULT_TUBE_DIAMETER, rotation |-> 0, rack_name |-> ""],
   [numeric |-> TRUE, rack_type |-> "Crate", x_tubes |-> 2, y_tubes |-> -1, pos_x |-> 50,
    pos_y |-> 50, tube_diameter |-> DEFAULT_TUBE_DIAMETER, rotation |-> 0, rack_name |-> ""],
   [numeric |-> TRUE, rack_type |-> "Crate", x_tubes |-> 2, y_tubes |-> 1, pos_x |-> 50,
    pos_y |-> 50, tube_diameter |-> 2, rotation |-> 0, rack_name |-> ""],
   [numeric |-> FALSE, rack_type |-> "Crate", x_tubes |-> 2, y_tubes |-> 1, pos_x |-> 50,
    pos_y |-> 50, tube_diameter |-> DEFAULT_TUBE_DIAMETER, rotation |-> 0, rack_name |-> ""]}

\* what the property panel holds when SpecGeometry adds a rack: either type,
\* every grid from 1 x 1 up, tubes of the default diameter, of half of it,
\* and of the diameters 5 and 3, below the smallest effective diameter
GeometryForms ==
  {[numeric |-> TRUE, rack_type |-> t, x_tubes |-> x, y_tubes |-> y, pos_x |-> 50,
    pos_y |-> 50, tube_diameter |-> d, rotation |-> 0, rack_name |-> ""] :
     t \in {"Crate", "Fan"}, x \in 1..MaxTubesX, y \in 1..MaxTubesY,
     d \in {DEFAULT_TUBE_DIAMETER, DEFAULT_TUBE_DIAMETER \div 2, 5, 3}}

SampleTube == [color |-> "pink", angle |-> 0, lift_time |-> 0, type |-> "Standard", cue |-> ""]

\* a saved layout: a crate, a fan, one flow line, one connection from the
\* crate to the fan and one inside the fan
SampleLayout ==
  JDict(
  [racks |-> <<saved_rack([id |-> 101, name |-> "Crate Rack 1", type |-> "Crate",
                           x_tubes |-> 2, y_tubes |-> 1, pos_x |-> 50, pos_y |-> 50,
                           tube_diameter |-> 20, rotation_angle |-> 0,
                           tubes |-> <<SampleTube, SampleTube>>]),
               saved_rack([id |-> 102, name |-> "Fan Rack 2", type |-> "Fan",
                           x_tubes |-> 1, y_tubes |-> 2, pos_x |-> 100, pos_y |-> 50,
                           tube_diameter |-> 20, rotation_angle |-> 0,
                           tubes |-> <<SampleTube, SampleTube>>])>>,
   flow_lines |-> <<[id |-> 103, x1 |-> 20, y1 |-> 100, x2 |-> 120, y2 |-> 100,
                     color |-> "darkred", width |-> 2, label |-> ""]>>,
   tube_connections |-> <<[id |-> 104, source_rack_id |-> 101, source_tube_idx |-> 1,
                           target_rack_id |-> 102, target_tube_idx |-> 0,
                           color |-> "#00FF00"],
                          [id |-> 105, source_rack_id |-> 102, source_tube_idx |-> 0,
                           target_rack_id |-> 102, target_tube_idx |-> 1,
                           color |-> "#00FF00"]>>,
   canvas_view |-> [zoom_level |-> <<1, 1>>, pan_offset_x |-> 0, pan_offset_y |-> 0]])

LayoutFiles == {SampleLayout}

\* a rack of a document: type Crate, 2 x 1, at (x, 50)
DocRack(id, x) ==
  [id |-> id, name |-> "Crate Rack", type |-> "Crate", x_tubes |-> 2, y_tubes |-> 1,
   pos_x |-> x, pos_y |-> 50, tube_diameter |-> 20, rotation_angle |-> 0,
   tubes |-> <<SampleTube, SampleTube>>]

DocLine(id) ==
  [id |-> id, x1 |-> 20, y1 |-> 100, x2 |-> 120, y2 |-> 100, color |-> "darkred",
   width |-> 2, label |-> ""]

\* a document whose rack has three tubes for its 2 x 1 grid, and a tube
\* connection from a tube to itself
MismatchedLayout ==
  JDict([racks |-> <<JDict([saved_rack(DocRack(201, 50)).v EXCEPT
                              !.tubes = JList(<<SampleTube, SampleTube, SampleTube>>)])>>,
         tube_connections |-> <<[id |-> 202, source_rack_id |-> 201, source_tube_idx |-> 0,
                                 target_rack_id |-> 201, target_tube_idx |-> 0,
                                 color |-> "#00FF00"]>>])

\* a document with an entry that is no object, a rack without pos_y, a rack
\* whose x_tubes is a word, and a rack as save_layout writes it
PartlyBrokenLayout ==
  JDict([racks |-> <<JText,
                     JDict([id |-> 211, type |-> "Crate", x_tubes |-> JNumber(2),
                            y_tubes |-> JNumber(1), pos_x |-> JNumber(50),
                            tubes |-> JList(<<SampleTube, SampleTube>>)]),
                     JDict([saved_rack(DocRack(212, 50)).v EXCEPT !.x_tubes = JText]),
                     saved_rack(DocRack(213, 100))>>,
         flow_lines |-> <<DocLine(214)>>])

\* a document with a rack whose pos_x is null between two racks as
\* save_layout writes them, a flow line and a zoomed view
NullPositionLayout ==
  JDict([racks |-> <<saved_rack(DocRack(221, 50)),
                     JDict([saved_rack(DocRack(222, 50)).v EXCEPT !.pos_x = JNull]),
                     saved_rack(DocRack(223, 100))>>,
         flow_lines |-> <<DocLine(224)>>,
         canvas_view |-> [zoom_level |-> <<5, 6>>, pan_offset_x |-> 0, pan_offset_y |-> 0]])

\* a document of the old format: the racks only, with tube_colors and with
\* numbers written as strings
OldFormatLayout ==
  JList(<<JDict([id |-> 231, type |-> "Crate", x_tubes |-> JNumeral(2),
                 y_tubes |-> JNumeral(1), pos_x |-> JNumeral(50), pos_y |-> JNumeral(50),
                 tube_colors |-> JList(<<"pink", "crimson">>)])>>)

\* files that save_layout has not written, or not alone: the documents
\* above, a document that is a number, and a file that is not JSON
DamagedFiles ==
  <<MismatchedLayout, PartlyBrokenLayout, NullPositionLayout, OldFormatLayout,
    JNumber(7), Undecodable>>

\* canvas points the middle button is pressed and moved at
PanPoints == {<<40, 50>>, <<150, 100>>}

\* the arrow keys pressed: Right and Up
NudgeKeys == {<<NUDGE_AMOUNT, 0>>, <<0, -NUDGE_AMOUNT>>}

----------------------------------------------------------------------------
(* Events *)

\* the state after construction, with `events` events still to deliver
InitWith(events) ==
  /\ planner = InitPlanner
  /\ tk = [b1 |-> FALSE, b2 |-> FALSE]
  /\ uuid_next = 1
  /\ budget = events
  /\ last_event = ""
  /\ before = InitPlanner

Init == InitWith(MaxSteps)

\* Tk delivers the queued <<TreeviewSelect>> events once the handler that
\* queued them has returned
RECURSIVE deliver_treeview_select(_)
deliver_treeview_select(st) ==
  IF st.treeview_select_pending
    THEN deliver_treeview_select(
           on_rack_inspector_select([st EXCEPT !.treeview_select_pending = FALSE,
                                               !.raised = FALSE]))
    ELSE st

\* the planner once the event loop is idle again: an exception that left the
\* handler has been reported by Tk and forgotten
Delivered(after) == [deliver_treeview_select(after) EXCEPT !.raised = FALSE]

\* One event: its handler leaves the planner as `after`, the mouse buttons
\* become `buttons`, uuid4 has handed out `ids` ids, and `spent` of the
\* budget is used up.
Step(handler, after, buttons, ids, spent) ==
  /\ budget > 0
  /\ planner' = Delivered(after)
  /\ tk' = buttons
  /\ uuid_next' = uuid_next + ids
  /\ budget' = budget - spent
  /\ last_event' = handler
  /\ before' = planner

Event(handler, after, buttons, ids) == Step(handler, after, buttons, ids, 1)

\* the widgets outside the canvas take the pointer: no button is held and
\* no context menu is posted
PointerFree == ~tk.b1 /\ ~tk.b2 /\ planner.posted_menu = ""
\* the root window takes a key
KeysFree == planner.posted_menu = ""

Ev(p, ctrl, shift) == [x |-> p[1], y |-> p[2], ctrl |-> ctrl, shift |-> shift]

\* the handler Tk runs for a press of button 1: the binding for
\* <Shift-ButtonPress-1> is the more specific one
PressHandler(shift) ==
  IF shift /\ planner.bind_shift_press1 # "" THEN planner.bind_shift_press1
  ELSE planner.bind_press1

Press(handler, shift) ==
  /\ planner.posted_menu = "" /\ ~tk.b1
  /\ PressHandler(shift) = handler

OnCanvasPress ==
  \E p \in CanvasPoints, ctrl \in BOOLEAN :
    /\ Press("on_canvas_press", FALSE)
    /\ Event("on_canvas_press", on_canvas_press(planner, Ev(p, ctrl, FALSE)), [tk EXCEPT !.b1 = TRUE], 0)

OnCanvasShiftClick ==
  \E p \in CanvasPoints :
    /\ Press("on_canvas_shift_click", TRUE)
    /\ Event("on_canvas_shift_click", on_canvas_shift_click(planner, Ev(p, FALSE, TRUE)), [tk EXCEPT !.b1 = TRUE], 0)

OnCanvasPressLineMode ==
  \E p \in CanvasPoints, shift \in BOOLEAN :
    /\ Press("on_canvas_press_line_mode", shift)
    /\ LET after == on_canvas_press_line_mode(planner, Ev(p, FALSE, shift), uuid_next)
       IN Event("on_canvas_press_line_mode", after, [tk EXCEPT !.b1 = TRUE],
                Len(after.flow_lines_on_canvas) - Len(planner.flow_lines_on_canvas))

OnCanvasPressConnectTubesMode ==
  \E p \in CanvasPoints, shift \in BOOLEAN :
    /\ Press("on_canvas_press_connect_tubes_mode", shift)
    /\ LET after == on_canvas_press_connect_tubes_mode(planner, Ev(p, FALSE, shift),
                                                       uuid_next)
       IN Event("on_canvas_press_connect_tubes_mode", after, [tk EXCEPT !.b1 = TRUE],
                Len(after.tube_connections) - Len(planner.tube_connections))

OnCanvasDrag ==
  \E p \in CanvasPoints :
    /\ planner.posted_menu = "" /\ tk.b1
    /\ planner.bind_b1_motion = "on_canvas_drag"
    /\ Event("on_canvas_drag", on_canvas_drag(planner, Ev(p, FALSE, FALSE)), tk, 0)

OnCanvasRelease ==
  \E p \in CanvasPoints :
    /\ planner.posted_menu = "" /\ tk.b1
    /\ planner.bind_release1 = "on_canvas_release"
    /\ Event("on_canvas_release", on_canvas_release(planner, Ev(p, FALSE, FALSE)), [tk EXCEPT !.b1 = FALSE], 0)

\* button 1 goes up with <ButtonRelease-1> unbound
ReleaseUnbound ==
  /\ planner.posted_menu = "" /\ tk.b1
  /\ planner.bind_release1 = ""
  /\ Event("release_unbound", planner, [tk EXCEPT !.b1 = FALSE], 0)

OnPanStart ==
  \E p \in PanPoints :
    /\ planner.posted_menu = "" /\ ~tk.b2
    /\ Event("on_pan_start", on_pan_start(planner, Ev(p, FALSE, FALSE)), [tk EXCEPT !.b2 = TRUE], 0)

OnPanMotion ==
  \E p \in PanPoints :
    /\ planner.posted_menu = "" /\ tk.b2
    /\ Event("on_pan_motion", on_pan_motion(planner, Ev(p, FALSE, FALSE)), tk, 0)

OnPanEnd ==
  /\ planner.posted_menu = "" /\ tk.b2
  /\ Event("on_pan_end", on_pan_end(planner), [tk EXCEPT !.b2 = FALSE], 0)

\* the views of the layouts SpecView loads: just below MAX_ZOOM, just above
\* MIN_ZOOM and in between, panned and not
ViewLayouts ==
  {JDict([canvas_view |-> [zoom_level |-> z, pan_offset_x |-> px, pan_offset_y |-> 0]]) :
     z \in {<<1, 1>>, <<9, 2>>, <<1, 9>>}, px \in {0, 30}}

\* where the pointer is when the wheel of SpecView turns
WheelCursors == {<<0, 0>>, <<90, 180>>, <<270, 90>>}

\* the zoom levels the wheel of SpecView may bring the view to: both limits,
\* and the levels a step away from 1
ViewZoomLevels == {<<1, 1>>, <<6, 5>>, <<5, 6>>, <<9, 2>>, MAX_ZOOM, <<1, 9>>, MIN_ZOOM}

WheelEvent(p, delta) == [x |-> p[1], y |-> p[2], ctrl |-> TRUE, delta |-> delta]

\* the zoom levels the wheel may bring the view to
ZoomLevels == {<<1, 1>>, <<5, 6>>}

OnMouseWheel ==
  \E delta \in {-1, 1} :
    /\ planner.posted_menu = ""
    /\ LET after == on_mouse_wheel(planner, [x |-> 0, y |-> 0, ctrl |-> TRUE,
                                            delta |-> delta])
       IN after.zoom_level \in ZoomLevels /\ Event("on_mouse_wheel", after, tk, 0)

\* what is typed into the Grid Size entry: 30, 0 and a text that is no number
GridSizeTexts == {<<30>>, <<0>>, <<>>}

ToggleSnapToGrid == PointerFree /\ Event("snap_grid_cb", snap_grid_cb(planner), tk, 0)

ToggleSnapToRacks == PointerFree /\ Event("snap_racks_cb", snap_racks_cb(planner), tk, 0)

EditGridSize ==
  \E text \in GridSizeTexts :
    /\ PointerFree /\ text # planner.grid_size_var
    /\ Event("grid_size_entry", grid_size_entry(planner, text), tk, 0)

LoadViewLayout ==
  \E file \in ViewLayouts :
    PointerFree /\ Event("load_layout", load_layout(planner, <<file>>), tk, 0)

ZoomAtCursor ==
  \E p \in WheelCursors, delta \in {-1, 1} :
    /\ planner.posted_menu = ""
    /\ wheel_zoom(planner.zoom_level, WheelEvent(p, delta)) \in ViewZoomLevels
    /\ Event("on_mouse_wheel", on_mouse_wheel(planner, WheelEvent(p, delta)), tk, 0)

ResetCanvasView == PointerFree /\ Event("reset_canvas_view", reset_canvas_view(planner), tk, 0)

ShowContextMenu ==
  \E p \in CanvasPoints :
    /\ PointerFree
    /\ Event("show_context_menu", show_context_menu(planner, Ev(p, FALSE, FALSE)), tk, 0)

\* a command of a posted context menu: the menu is unposted, then the
\* command runs
Unposted == [planner EXCEPT !.posted_menu = ""]

DismissContextMenu == planner.posted_menu # "" /\ Event("unpost", Unposted, tk, 0)

\* one tube edited in a tube dialog, or the dialog closed
TubeEdits == {<<>>, <<0, "color", "lightblue">>, <<1, "type", "Comet">>}

RackMenuTubeDialog ==
  \E edit \in TubeEdits :
    planner.posted_menu = "rack" /\ Event("open_tube_dialog_ctx", open_tube_dialog_ctx(Unposted, edit), tk, 0)

RackMenuRotate ==
  planner.posted_menu = "rack" /\ Event("rotate_selected_racks_action_ctx", rotate_selected_racks_action_ctx(Unposted), tk, 0)

RackMenuDuplicate ==
  /\ planner.posted_menu = "rack"
  /\ LET after == duplicate_selected_racks_ctx(Unposted, uuid_next)
     IN Event("duplicate_selected_racks_ctx", after, tk, Len(after.racks_on_canvas) - Len(planner.racks_on_canvas))

MenuDelete ==
  \E confirm \in BOOLEAN :
    planner.posted_menu # "" /\ Event("delete_selected_item_ctx", delete_selected_item(Unposted, confirm), tk, 0)

LineMenuColor ==
  \E c \in LINE_CONTEXT_COLORS :
    planner.posted_menu = "line" /\ Event("change_selected_line_color", change_selected_line_color(Unposted, c), tk, 0)

\* keys bound on the root window
NudgeKey ==
  \E d \in NudgeKeys :
    KeysFree /\ Event("nudge_selected_racks", nudge_selected_racks(planner, d[1], d[2]), tk, 0)

DeleteKey ==
  \E confirm \in BOOLEAN : KeysFree /\ Event("delete_selected_item", delete_selected_item(planner, confirm), tk, 0)

RotateKey == KeysFree /\ Event("handle_rotate_shortcut", handle_rotate_shortcut(planner), tk, 0)

DuplicateKey ==
  /\ KeysFree
  /\ LET after == duplicate_selected_racks_shortcut_handler(planner, uuid_next)
     IN Event("duplicate_selected_racks_shortcut_handler", after, tk, Len(after.racks_on_canvas) - Len(planner.racks_on_canvas))

\* buttons, entries and the tree outside the canvas
UndoButton == PointerFree /\ Event("undo_action", undo_action(planner), tk, 0)

RedoButton == PointerFree /\ Event("redo_action", redo_action(planner), tk, 0)

LoadLayout ==
  \E file \in {<<>>} \cup {<<f>> : f \in LayoutFiles} :
    PointerFree /\ Event("load_layout", load_layout(planner, file), tk, 0)

LoadDamagedLayout ==
  \E n \in 1..Len(DamagedFiles) :
    PointerFree /\ Event("load_layout", load_layout(planner, <<DamagedFiles[n]>>), tk, 0)

ExportCanvasAsImage ==
  \E chosen \in BOOLEAN :
    /\ PointerFree /\ planner.export_restore = <<>>
    /\ Event("export_canvas_as_image", export_canvas_as_image(planner, chosen), tk, 0)

\* the timer of root.after(250, ...) fires
ExportTimer ==
  /\ planner.export_restore # <<>> /\ planner.posted_menu = ""
  /\ Event("perform_grab_and_restore_selection", perform_grab_and_restore_selection(planner), tk, 0)

AddRackButton ==
  \E form \in RackForms :
    /\ PointerFree
    /\ LET after == add_rack_to_list(planner, form, uuid_next)
       IN Event("add_rack_to_list", after, tk, Len(after.racks_on_canvas) - Len(planner.racks_on_canvas))

RotateButton == PointerFree /\ Event("rotate_selected_racks_action", rotate_selected_racks_action(planner), tk, 0)

DuplicateButton ==
  /\ PointerFree
  /\ LET after == duplicate_selected_racks(planner, uuid_next)
     IN Event("duplicate_selected_racks", after, tk, Len(after.racks_on_canvas) - Len(planner.racks_on_canvas))

TubeDialogButton ==
  \E edit \in TubeEdits : PointerFree /\ Event("open_tube_dialog", open_tube_dialog(planner, edit), tk, 0)

ToggleDrawFlowLineMode == PointerFree /\ Event("toggle_draw_flow_line_mode", toggle_draw_flow_line_mode(planner), tk, 0)

ToggleConnectTubesMode ==
  PointerFree /\ Event("toggle_connect_tubes_mode", toggle_connect_tubes_mode(planner, FALSE), tk, 0)

ClearAllFlowLines ==
  \E confirm \in BOOLEAN : PointerFree /\ Event("clear_all_flow_lines", clear_all_flow_lines(planner, confirm), tk, 0)

ClearAllTubeConnections ==
  \E confirm \in BOOLEAN :
    PointerFree /\ Event("clear_all_tube_connections", clear_all_tube_connections(planner, confirm), tk, 0)

ClearAllRacks ==
  \E confirm \in BOOLEAN : PointerFree /\ Event("clear_all_racks", clear_all_racks(planner, confirm), tk, 0)

ApplyRackName ==
  PointerFree /\ Event("apply_rack_name_from_ui", apply_rack_name_from_ui(planner, "Finale"), tk, 0)

ApplyFlowLineLabel ==
  PointerFree /\ Event("apply_flow_line_label_from_ui", apply_flow_line_label_from_ui(planner, "North"), tk, 0)

ApplyPosition ==
  PointerFree /\ Event("apply_position_from_ui", apply_position_from_ui(planner, 60, 120), tk, 0)

ApplyRotation ==
  \E angle \in {90, 180} : PointerFree /\ Event("apply_rotation_from_ui", apply_rotation_from_ui(planner, angle), tk, 0)

\* the user changes the selection of the Rack Inspector tree, which queues
\* <<TreeviewSelect>>
InspectorSelect ==
  \E S \in SUBSET SeqToSet(planner.tree_items) :
    /\ PointerFree
    /\ S # planner.tree_selection
    /\ Event("on_rack_inspector_select", [planner EXCEPT !.tree_selection = S, !.treeview_select_pending = TRUE], tk, 0)

Next ==
  \/ OnCanvasPress \/ OnCanvasShiftClick \/ OnCanvasPressLineMode
  \/ OnCanvasPressConnectTubesMode \/ OnCanvasDrag \/ OnCanvasRelease \/ ReleaseUnbound
  \/ OnPanStart \/ OnPanMotion \/ OnPanEnd \/ OnMouseWheel \/ ResetCanvasView
  \/ ShowContextMenu \/ DismissContextMenu \/ RackMenuTubeDialog \/ RackMenuRotate
  \/ RackMenuDuplicate \/ MenuDelete \/ LineMenuColor
  \/ NudgeKey \/ DeleteKey \/ RotateKey \/ DuplicateKey
  \/ UndoButton \/ RedoButton \/ LoadLayout \/ ExportCanvasAsImage \/ ExportTimer
  \/ AddRackButton \/ RotateButton \/ DuplicateButton \/ TubeDialogButton
  \/ ToggleDrawFlowLineMode \/ ToggleConnectTubesMode
  \/ ClearAllFlowLines \/ ClearAllTubeConnections \/ ClearAllRacks
  \/ ApplyRackName \/ ApplyFlowLineLabel \/ ApplyPosition \/ ApplyRotation
  \/ InspectorSelect

Spec == Init /\ [][Next]_vars

----------------------------------------------------------------------------
(* Gestures on a rack, with the middle button at hand: longer behaviours of  *)
(* fewer events                                                              *)

InitDrag == InitWith(MaxDragSteps)

NextDrag ==
  \/ LoadLayout \/ OnCanvasPress \/ OnCanvasDrag \/ OnCanvasRelease
  \/ OnPanStart \/ OnPanEnd \/ UndoButton

SpecDrag == InitDrag /\ [][NextDrag]_vars

----------------------------------------------------------------------------
(* Connecting tubes while racks are deleted                                  *)

InitConnect == InitWith(MaxConnectSteps)

NextConnect ==
  \/ LoadLayout \/ ToggleConnectTubesMode \/ OnCanvasPressConnectTubesMode
  \/ ReleaseUnbound \/ InspectorSelect \/ DeleteKey

SpecConnect == InitConnect /\ [][NextConnect]_vars

----------------------------------------------------------------------------
(* A long history: one rack is added and then rotated, undone and redone    *)
(* without end.  The events spend no budget; the states are finitely many   *)
(* because uuid4 hands out one id only.                                     *)

AddFirstRack ==
  \E form \in RackForms :
    /\ PointerFree /\ uuid_next = 1
    /\ Step("add_rack_to_list", add_rack_to_list(planner, form, uuid_next), tk,
            Len(add_rack_to_list(planner, form, uuid_next).racks_on_canvas), 0)

RotateAgain == KeysFree /\ Step("handle_rotate_shortcut", handle_rotate_shortcut(planner), tk, 0, 0)

UndoAgain == PointerFree /\ Step("undo_action", undo_action(planner), tk, 0, 0)

RedoAgain == PointerFree /\ Step("redo_action", redo_action(planner), tk, 0, 0)

NextHistory == AddFirstRack \/ RotateAgain \/ UndoAgain \/ RedoAgain

SpecHistory == Init /\ [][NextHistory]_vars

----------------------------------------------------------------------------
(* Undo and redo in the middle of a flow line or of a tube connection        *)

InitRestore == InitWith(MaxRestoreSteps)

NextRestore ==
  \/ AddRackButton \/ ToggleDrawFlowLineMode \/ ToggleConnectTubesMode
  \/ OnCanvasPressLineMode \/ OnCanvasPressConnectTubesMode \/ ReleaseUnbound
  \/ UndoButton \/ RedoButton

SpecRestore == InitRestore /\ [][NextRestore]_vars

----------------------------------------------------------------------------
(* Loading files that save_layout has not written                            *)

InitLoad == InitWith(MaxLoadSteps)

NextLoad ==
  \/ LoadLayout \/ LoadDamagedLayout \/ AddRackButton \/ OnMouseWheel
  \/ InspectorSelect \/ RotateButton \/ UndoButton

SpecLoad == InitLoad /\ [][NextLoad]_vars

----------------------------------------------------------------------------
(* Racks of every shape, turned a quarter at a time                          *)

InitGeometry == InitWith(MaxGeometrySteps)

AddShapedRack ==
  \E form \in GeometryForms :
    /\ PointerFree /\ uuid_next = 1
    /\ LET after == add_rack_to_list(planner, form, uuid_next)
       IN Event("add_rack_to_list", after, tk, Len(after.racks_on_canvas))

NextGeometry == AddShapedRack \/ RotateButton \/ UndoButton

SpecGeometry == InitGeometry /\ [][NextGeometry]_vars

----------------------------------------------------------------------------
(* Zooming about the pointer, up to both limits                              *)

InitView == InitWith(MaxViewSteps)

NextView == LoadViewLayout \/ ZoomAtCursor \/ ResetCanvasView

SpecView == InitView /\ [][NextView]_vars

----------------------------------------------------------------------------
(* Dragging with the snapping switched on                                    *)

InitSnap == InitWith(MaxSnapSteps)

NextSnap ==
  \/ LoadLayout \/ ToggleSnapToGrid \/ ToggleSnapToRacks \/ EditGridSize
  \/ InspectorSelect \/ OnCanvasPress \/ OnCanvasDrag \/ OnCanvasRelease
  \/ OnMouseWheel

SpecSnap == InitSnap /\ [][NextSnap]_vars

----------------------------------------------------------------------------
(* Derived metrics: the fuse estimate.  Lengths are fractions <<n, d>> of    *)
(* inches.                                                                   *)

DEFAULT_CRATE_FUSE_INCHES == 70
FAN_CHAIN_INTER_TUBE_ALLOWANCE_INCHES == 3
FAN_CHAIN_INTER_SEGMENT_ALLOWANCE_INCHES == 0
FAN_CHAIN_LEAD_INCHES == 3
FAN_CHAIN_TAIL_INCHES == 3
FUSE_LENGTH_SCALE_FACTOR == <<9, 10>>

FracAdd(a, b) == Frac(a[1] * b[2] + b[1] * a[2], a[2] * b[2])
FracMul(a, b) == Frac(a[1] * b[1], a[2] * b[2])

\* the fractions of seq added up from left to right, as += does
RECURSIVE FracSum(_)
FracSum(seq) ==
  IF seq = <<>> THEN <<0, 1>>
  ELSE FracAdd(FracSum(SubSeq(seq, 1, Len(seq) - 1)), seq[Len(seq)])

\* _update_canvas_summary_info: current_rack_total_fuse_length_inches of a
\* rack
current_rack_total_fuse_length_inches(rack_config) ==
  LET num_tubes_in_rack == rack_config.x_tubes * rack_config.y_tubes
      base_crate_tubes == 5 * 5
      num_segments == rack_config.x_tubes
      tubes_per_segment == rack_config.y_tubes
  IN IF num_tubes_in_rack = 0 THEN <<0, 1>>
     ELSE IF rack_config.type = "Crate"
       THEN Frac(DEFAULT_CRATE_FUSE_INCHES * num_tubes_in_rack, base_crate_tubes)
     ELSE IF rack_config.type = "Fan" /\ num_segments > 0 /\ tubes_per_segment > 0
       THEN <<FAN_CHAIN_LEAD_INCHES
                + num_segments * Max2(0, tubes_per_segment - 1)
                    * FAN_CHAIN_INTER_TUBE_ALLOWANCE_INCHES
                + Max2(0, num_segments - 1) * FAN_CHAIN_INTER_SEGMENT_ALLOWANCE_INCHES
                + FAN_CHAIN_TAIL_INCHES, 1>>
     ELSE <<0, 1>>

\* the rack total spread over the tubes without FUSE_LENGTH_SCALE_FACTOR
fuse_per_tube_unscaled(rack_config) ==
  LET total == current_rack_total_fuse_length_inches(rack_config)
  IN IF total[1] > 0
       THEN Frac(total[1], total[2] * rack_config.x_tubes * rack_config.y_tubes)
     ELSE <<0, 1>>

\* _update_canvas_summary_info: fuse_per_tube_in_rack_inches, nothing if the
\* rack total is not positive
fuse_per_tube_in_rack_inches(rack_config) ==
  LET total == current_rack_total_fuse_length_inches(rack_config)
  IN IF total[1] > 0
       THEN Frac(total[1] * FUSE_LENGTH_SCALE_FACTOR[1],
                 total[2] * FUSE_LENGTH_SCALE_FACTOR[2]
                   * rack_config.x_tubes * rack_config.y_tubes)
     ELSE <<0, 1>>

\* what one rack adds to the running total of color
rack_fuse_of_color(rack_config, color) ==
  FracSum([k \in 1..Len(rack_config.tubes) |->
             IF rack_config.tubes[k].color = color
               THEN fuse_per_tube_in_rack_inches(rack_config) ELSE <<0, 1>>])

\* _update_canvas_summary_info: fuse_lengths_by_color_value once the loop
\* over racks_on_canvas is through, keyed by the tube colours met
fuse_lengths_by_color_value(st) ==
  [color \in UNION {{r.tubes[k].color : k \in 1..Len(r.tubes)} :
                      r \in SeqToSet(st.racks_on_canvas)} |->
     FracSum([i \in 1..Len(st.racks_on_canvas) |->
                rack_fuse_of_color(st.racks_on_canvas[i], color)])]

----------------------------------------------------------------------------
(* Pressing where racks and flow lines lie over each other                   *)

MaxHitSteps == 5

\* a saved layout whose items overlap: a crate, a fan, a second crate lying
\* over the first, a flow line running down through the fan and one running
\* below every rack
HitLayout ==
  JDict(
  [racks |-> <<saved_rack([id |-> 101, name |-> "Crate Rack 1", type |-> "Crate",
                           x_tubes |-> 2, y_tubes |-> 1, pos_x |-> 50, pos_y |-> 50,
                           tube_diameter |-> 20, rotation_angle |-> 0,
                           tubes |-> <<SampleTube, SampleTube>>]),
               saved_rack([id |-> 102, name |-> "Fan Rack 2", type |-> "Fan",
                           x_tubes |-> 1, y_tubes |-> 2, pos_x |-> 100, pos_y |-> 50,
                           tube_diameter |-> 20, rotation_angle |-> 0,
                           tubes |-> <<SampleTube, SampleTube>>]),
               saved_rack([id |-> 106, name |-> "Crate Rack 3", type |-> "Crate",
                           x_tubes |-> 2, y_tubes |-> 1, pos_x |-> 60, pos_y |-> 60,
                           tube_diameter |-> 20, rotation_angle |-> 0,
                           tubes |-> <<SampleTube, SampleTube>>])>>,
   flow_lines |-> <<[id |-> 103, x1 |-> 20, y1 |-> 100, x2 |-> 120, y2 |-> 100,
                     color |-> "darkred", width |-> 2, label |-> ""],
                    [id |-> 107, x1 |-> 100, y1 |-> 20, x2 |-> 100, y2 |-> 60,
                     color |-> "darkred", width |-> 2, label |-> ""]>>,
   tube_connections |-> <<>>,
   canvas_view |-> [zoom_level |-> <<1, 1>>, pan_offset_x |-> 0, pan_offset_y |-> 0]])

LoadHitLayout == PointerFree /\ Event("load_layout", load_layout(planner, <<HitLayout>>), tk, 0)

InitHit == InitWith(MaxHitSteps)

NextHit ==
  \/ LoadHitLayout \/ OnCanvasPress \/ OnCanvasDrag \/ OnCanvasRelease \/ OnMouseWheel

SpecHit == InitHit /\ [][NextHit]_vars

----------------------------------------------------------------------------
(* The zoom level under every operation that sets it                         *)

MaxZoomSteps == 3

\* layout files whose canvas_view was not written by this program: zoomed in
\* to 10 and zoomed out to 1/20
ZoomedLayouts ==
  {JDict([canvas_view |-> [zoom_level |-> z, pan_offset_x |-> 0, pan_offset_y |-> 0]]) :
     z \in {<<10, 1>>, <<1, 20>>}}

LoadZoomedLayout ==
  \E file \in ZoomedLayouts \cup ViewLayouts :
    PointerFree /\ Event("load_layout", load_layout(planner, <<file>>), tk, 0)

\* the middle button pressed and moved where the wheel of SpecView turns
PanStartAtCursor ==
  \E p \in WheelCursors :
    /\ planner.posted_menu = "" /\ ~tk.b2
    /\ Event("on_pan_start", on_pan_start(planner, Ev(p, FALSE, FALSE)), [tk EXCEPT !.b2 = TRUE], 0)

PanMotionAtCursor ==
  \E p \in WheelCursors :
    /\ planner.posted_menu = "" /\ tk.b2
    /\ Event("on_pan_motion", on_pan_motion(planner, Ev(p, FALSE, FALSE)), tk, 0)

InitZoom == InitWith(MaxZoomSteps)

NextZoom ==
  \/ LoadZoomedLayout \/ ZoomAtCursor \/ ResetCanvasView
  \/ PanStartAtCursor \/ PanMotionAtCursor \/ OnPanEnd
  \/ AddFirstRack \/ UndoButton \/ RedoButton

SpecZoom == InitZoom /\ [][NextZoom]_vars

----------------------------------------------------------------------------
(* Drawing a flow line with clicks close to each other                       *)

MaxLineSteps == 6

\* a saved layout with an empty scene and the view zoomed out to 1/2
ZoomedOutLayout ==
  JDict([canvas_view |-> [zoom_level |-> <<1, 2>>, pan_offset_x |-> 10, pan_offset_y |-> 0]])

LoadZoomedOutLayout ==
  PointerFree /\ Event("load_layout", load_layout(planner, <<ZoomedOutLayout>>), tk, 0)

\* where the canvas is clicked in SpecLine: (43, 54) is 5 pixels from
\* (40, 50), (42, 53) is less than 5 pixels from both, (100, 40) is far off
LinePoints == {<<40, 50>>, <<43, 54>>, <<42, 53>>, <<100, 40>>}

PressLineAt ==
  \E p \in LinePoints :
    /\ Press("on_canvas_press_line_mode", FALSE)
    /\ LET after == on_canvas_press_line_mode(planner, Ev(p, FALSE, FALSE), uuid_next)
       IN Event("on_canvas_press_line_mode", after, [tk EXCEPT !.b1 = TRUE],
                Len(after.flow_lines_on_canvas) - Len(planner.flow_lines_on_canvas))

InitLine == InitWith(MaxLineSteps)

NextLine ==
  \/ LoadZoomedOutLayout \/ ToggleDrawFlowLineMode \/ PressLineAt \/ ReleaseUnbound
  \/ OnCanvasRelease

SpecLine == InitLine /\ [][NextLine]_vars

----------------------------------------------------------------------------
(* Properties *)

\* what a history entry records of a planner: the racks, the flow lines, the
\* tube connections, the two selections and the view
Recorded(st) ==
  <<st.racks_on_canvas, st.flow_lines_on_canvas, st.tube_connections,
    st.selected_rack_ids, st.selected_flow_line_id,
    st.zoom_level, st.pan_offset_x, st.pan_offset_y>>

\* the same of a history entry
EntryFields(e) ==
  <<e.racks, e.flow_lines, e.tube_connections, e.selected_rack_ids, e.selected_flow_line_id,
    e.canvas_view.zoom, e.canvas_view.pan_x, e.canvas_view.pan_y>>

\* the scene of a planner
SceneOf(st) == <<st.racks_on_canvas, st.flow_lines_on_canvas, st.tube_connections>>

LastOf(stack) == stack[Len(stack)]

\* the event delivered last was an undo that had an entry to pop
Undone == last_event = "undo_action" /\ before.undo_stack # <<>>

\* C1: after an undo_action that found the undo stack non-empty, a
\* redo_action leaves the racks, the flow lines, the tube connections, the
\* rack selection, the flow-line selection and the zoom and pan as they were
\* just before the undo.
C1_UndoRedoRoundTrip ==
  Undone => Recorded(Delivered(redo_action(planner))) = Recorded(before)

\* an undo has changed the scene and the view, and redo brings both back
C1_Witness ==
  /\ Undone
  /\ SceneOf(planner) # SceneOf(before)
  /\ before.zoom_level # <<1, 1>>
  /\ Recorded(Delivered(redo_action(planner))) = Recorded(before)

\* the handlers of the commands that change the scene
MutatingCommands ==
  {"add_rack_to_list", "on_canvas_press_connect_tubes_mode", "on_canvas_press_line_mode",
   "apply_rack_name_from_ui", "apply_position_from_ui", "apply_rotation_from_ui",
   "handle_rotate_shortcut", "rotate_selected_racks_action", "rotate_selected_racks_action_ctx",
   "nudge_selected_racks", "duplicate_selected_racks", "duplicate_selected_racks_ctx",
   "duplicate_selected_racks_shortcut_handler", "delete_selected_item",
   "delete_selected_item_ctx", "change_selected_line_color", "on_canvas_shift_click"}

\* the event delivered last was a command that changed the scene
Mutated == last_event \in MutatingCommands /\ SceneOf(planner) # SceneOf(before)

\* C2: right after a command that changed the scene, the top entry of the
\* undo stack is the state the command found, and one undo_action restores
\* that state.
C2_RecordBeforeMutate ==
  Mutated =>
    /\ planner.undo_stack # <<>>
    /\ EntryFields(LastOf(planner.undo_stack)) = Recorded(before)
    /\ Recorded(Delivered(undo_action(planner))) = Recorded(before)

\* the event delivered last was the release of a press on a rack
GestureEnded ==
  /\ last_event = "on_canvas_release"
  /\ before.dragging_rack_id # NoId
  /\ before.drag_operation_pending_undo_state # <<>>

\* the state on_canvas_press captured
PressState == before.drag_operation_pending_undo_state[1]

\* the position of the rack rack_id among racks
PositionIn(racks, rack_id) ==
  LET i == CHOOSE k \in 1..Len(racks) : racks[k].id = rack_id
  IN <<racks[i].pos_x, racks[i].pos_y>>

\* at the release a selected rack is not where it was at the press
MovedSincePress ==
  \E k \in 1..Len(before.selected_rack_ids) :
    LET rack_id == before.selected_rack_ids[k]
    IN /\ \E i \in 1..Len(PressState.racks) : PressState.racks[i].id = rack_id
       /\ HasRack(before, rack_id)
       /\ PositionIn(PressState.racks, rack_id) # PositionIn(before.racks_on_canvas, rack_id)

\* C3: the release that ends a press on a rack pushes the state captured at
\* the press, and only it, if a selected rack has moved since the press, and
\* leaves the undo stack and the redo stack alone if none has.
C3_DragPushesOnce ==
  GestureEnded =>
    IF MovedSincePress
      THEN /\ planner.undo_stack = Append(before.undo_stack, PressState)
           /\ planner.redo_stack = <<>>
      ELSE /\ planner.undo_stack = before.undo_stack
           /\ planner.redo_stack = before.redo_stack

\* the racks the event delivered last took out of the scene
Removed == RackIds(before) \ RackIds(planner)

\* the event delivered last was a delete or a clear that took racks out
RacksDeleted ==
  /\ last_event \in {"delete_selected_item", "delete_selected_item_ctx", "clear_all_racks"}
  /\ Removed # {}

\* the connections of `before` that touch no removed rack, in their order
Untouched ==
  LET Keep(c) == c.source_rack_id \notin Removed /\ c.target_rack_id \notin Removed
  IN SelectSeq(before.tube_connections, Keep)

\* C4: a delete_selected_item or a clear_all_racks that takes racks out of
\* the scene leaves exactly the tube connections whose source rack and target
\* rack are both not among those racks, unaltered and in their order.
C4_DeletePrunesConnections == RacksDeleted => planner.tube_connections = Untouched

\* a delete has removed one connection and kept another
C4_Witness ==
  /\ RacksDeleted
  /\ planner.tube_connections # <<>>
  /\ Len(planner.tube_connections) < Len(before.tube_connections)

\* C5: the source rack and the target rack of every tube connection are
\* racks of the scene.
C5_NoDanglingConnection ==
  \A i \in 1..Len(planner.tube_connections) :
    /\ planner.tube_connections[i].source_rack_id \in RackIds(planner)
    /\ planner.tube_connections[i].target_rack_id \in RackIds(planner)

\* C6: a flow line and a rack are never selected together.
C6_SelectionExclusive ==
  ~(planner.selected_flow_line_id # NoId /\ planner.selected_rack_ids # <<>>)

\* a press on a flow line has taken the selection from the racks
C6_Witness ==
  /\ last_event = "on_canvas_press"
  /\ before.selected_rack_ids # <<>>
  /\ planner.selected_flow_line_id # NoId

\* the interaction modes that are active
ActiveModes ==
  {m \in {"dragging", "drawing", "connecting", "panning"} :
     \/ m = "dragging" /\ planner.dragging_rack_id # NoId
     \/ m = "drawing" /\ planner.drawing_flow_line_mode
     \/ m = "connecting" /\ planner.connecting_tubes_mode
     \/ m = "panning" /\ planner.is_panning}

\* C7: at most one of the modes rack drag, flow-line drawing, tube connecting
\* and panning is active.
C7_OneModeAtATime == Cardinality(ActiveModes) <= 1

\* the event delivered last pushed a new entry onto the undo stack
NewlyRecorded ==
  /\ last_event \notin {"", "undo_action", "redo_action", "load_layout"}
  /\ planner.undo_stack # before.undo_stack

\* C8: the undo stack never holds more than MAX_UNDO_STEPS entries, and a
\* state recorded onto a full stack pushes the oldest entry out and keeps the
\* others in their order below the new one.
C8_UndoStackBounded ==
  /\ Len(planner.undo_stack) <= MAX_UNDO_STEPS
  /\ (NewlyRecorded /\ Len(before.undo_stack) = MAX_UNDO_STEPS) =>
       /\ SubSeq(planner.undo_stack, 1, MAX_UNDO_STEPS - 1) = Tail(before.undo_stack)
       /\ EntryFields(planner.undo_stack[MAX_UNDO_STEPS]) = Recorded(before)

\* a rotation has been recorded onto a full undo stack
C8_Witness ==
  /\ NewlyRecorded
  /\ Len(before.undo_stack) = MAX_UNDO_STEPS
  /\ Len(planner.undo_stack) = MAX_UNDO_STEPS
  /\ before.undo_stack[1] # before.undo_stack[2]

\* C9: right after an event that recorded a new state the redo stack is
\* empty.
C9_RecordClearsRedo == NewlyRecorded => planner.redo_stack = <<>>

\* a state has been recorded while there was something to redo
C9_Witness == NewlyRecorded /\ before.redo_stack # <<>> /\ planner.redo_stack = <<>>

\* C10: undo_action with the undo stack empty and redo_action with the redo
\* stack empty leave the planner, its two stacks included, as it was, and
\* raise nothing.
C10_UnderflowNoOp ==
  /\ (last_event = "undo_action" /\ before.undo_stack = <<>>) =>
       planner = before /\ ~undo_action(before).raised
  /\ (last_event = "redo_action" /\ before.redo_stack = <<>>) =>
       planner = before /\ ~redo_action(before).raised

\* undo_action has run with nothing to undo and something to redo
C10_Witness ==
  /\ last_event = "undo_action"
  /\ before.undo_stack = <<>>
  /\ before.redo_stack # <<>>
  /\ planner = before

\* the event delivered last was an undo or a redo that restored a state
Restored ==
  \/ Undone
  \/ last_event = "redo_action" /\ before.redo_stack # <<>>

\* C11: after an undo_action or a redo_action that restored a state no rack
\* is being dragged, no drag start position and no pending drag snapshot is
\* kept, no flow line has its start point pending and no tube is pending as
\* the source of a connection.
C11_RestoreResetsGestures ==
  Restored =>
    /\ planner.dragging_rack_id = NoId
    /\ planner.drag_start_positions = {}
    /\ planner.drag_operation_pending_undo_state = <<>>
    /\ planner.flow_line_start_point = <<>>
    /\ planner.first_tube_for_connection = <<>>

\* an undo has taken away the rack whose tube was pending as the source of a
\* connection
C11_Witness ==
  /\ Restored
  /\ before.first_tube_for_connection # <<>>
  /\ ~HasRack(planner, before.first_tube_for_connection[1])
  /\ planner.first_tube_for_connection = <<>>

\* C12: every id of the rack selection is the id of a rack of the scene, and
\* the selected flow line, if there is one, is a flow line of the scene.
C12_SelectionInScene ==
  /\ \A k \in 1..Len(planner.selected_rack_ids) :
       planner.selected_rack_ids[k] \in RackIds(planner)
  /\ planner.selected_flow_line_id # NoId => HasLine(planner, planner.selected_flow_line_id)

\* the event delivered last was a rotation command that found racks, and no
\* flow line, selected
RotationRun ==
  /\ last_event \in {"rotate_selected_racks_action", "rotate_selected_racks_action_ctx",
                     "handle_rotate_shortcut"}
  /\ before.selected_rack_ids # <<>>
  /\ before.selected_flow_line_id = NoId

\* the rotations of the racks of st, in their order
RotationsOf(st) == [i \in 1..Len(st.racks_on_canvas) |-> st.racks_on_canvas[i].rotation_angle]

\* st after one more rotate_selected_racks_action
RotatedOnceMore(st) == Delivered(rotate_selected_racks_action(st))

\* C13: rotate_selected_racks_action turns every selected rack by a quarter
\* turn, 0 to 90 to 180 to 270 to 0, and leaves its other fields, the
\* unselected racks, the flow lines, the tube connections and the selection
\* as they were; three more rotations bring every rack back to the rotation
\* it had.
C13_RotateQuarterTurn ==
  RotationRun =>
    /\ Len(planner.racks_on_canvas) = Len(before.racks_on_canvas)
    /\ \A i \in 1..Len(before.racks_on_canvas) :
         LET r == before.racks_on_canvas[i]
         IN planner.racks_on_canvas[i] =
              IF InSeq(r.id, before.selected_rack_ids)
                THEN [r EXCEPT !.rotation_angle = (@ + 90) % 360]
                ELSE r
    /\ planner.flow_lines_on_canvas = before.flow_lines_on_canvas
    /\ planner.tube_connections = before.tube_connections
    /\ planner.selected_rack_ids = before.selected_rack_ids
    /\ planner.selected_flow_line_id = before.selected_flow_line_id
    /\ RotationsOf(RotatedOnceMore(RotatedOnceMore(RotatedOnceMore(planner))))
         = RotationsOf(before)

\* a rotation has turned one rack of a layout with lines and connections and
\* left another rack alone
C13_Witness ==
  /\ RotationRun
  /\ \E i, j \in 1..Len(planner.racks_on_canvas) :
       /\ planner.racks_on_canvas[i].rotation_angle = 90
       /\ before.racks_on_canvas[i].rotation_angle = 0
       /\ planner.racks_on_canvas[j] = before.racks_on_canvas[j]
  /\ planner.flow_lines_on_canvas # <<>>
  /\ planner.tube_connections # <<>>

\* the event delivered last was a duplicate command that found racks, and no
\* flow line, selected
DuplicateRun ==
  /\ last_event \in {"duplicate_selected_racks", "duplicate_selected_racks_ctx",
                     "duplicate_selected_racks_shortcut_handler"}
  /\ before.selected_rack_ids # <<>>
  /\ before.selected_flow_line_id = NoId

\* the ids of the racks, the flow lines and the tube connections of st
IdsOf(st) ==
  RackIds(st) \cup {st.flow_lines_on_canvas[i].id : i \in 1..Len(st.flow_lines_on_canvas)}
              \cup {st.tube_connections[i].id : i \in 1..Len(st.tube_connections)}

\* C14: duplicate_selected_racks with k racks selected appends k racks with
\* ids that are new and differ from each other; copy i (from 0) lies
\* (20 + 5 * i) / zoom right of and below the rack selected i-th; the racks
\* that were there are unchanged; the selection becomes the k copies in
\* their order, with no flow line.
C14_DuplicateAddsCopies ==
  DuplicateRun =>
    LET k == Len(before.selected_rack_ids)
        n == Len(before.racks_on_canvas)
        zoom == before.zoom_level
    IN /\ Len(planner.racks_on_canvas) = n + k
       /\ SubSeq(planner.racks_on_canvas, 1, n) = before.racks_on_canvas
       /\ \A i \in 0..(k - 1) :
            LET copy == planner.racks_on_canvas[n + 1 + i]
                original_id == before.selected_rack_ids[i + 1]
            IN /\ copy.id \notin IdsOf(before)
               /\ \A j \in 0..(k - 1) : planner.racks_on_canvas[n + 1 + j].id = copy.id => j = i
               /\ HasRack(before, original_id)
               /\ (copy.pos_x - RackById(before, original_id).pos_x) * zoom[1]
                    = (DUPLICATE_OFFSET_X + DUPLICATE_OFFSET_INCREMENT * i) * zoom[2]
               /\ (copy.pos_y - RackById(before, original_id).pos_y) * zoom[1]
                    = (DUPLICATE_OFFSET_Y + DUPLICATE_OFFSET_INCREMENT * i) * zoom[2]
               /\ copy.pos_x > RackById(before, original_id).pos_x
               /\ copy.pos_y > RackById(before, original_id).pos_y
       /\ planner.selected_rack_ids = [i \in 1..k |-> planner.racks_on_canvas[n + i].id]
       /\ planner.selected_flow_line_id = NoId

\* the palette in the order of the colour cycle
Palette == <<"White", "Yellow", "Pink", "Blue", "Orange", "Green">>

\* the colour after color in the cycle of Palette
PaletteNext(color) ==
  LET i == CHOOSE k \in 1..Len(Palette) : FUSE_COLORS_MAP[Palette[k]] = color
  IN FUSE_COLORS_MAP[Palette[(i % Len(Palette)) + 1]]

\* one rack of the scene is selected and a shift-click reaches
\* on_canvas_shift_click
CyclesColors(st) ==
  /\ ~st.drawing_flow_line_mode /\ ~st.connecting_tubes_mode
  /\ Len(st.selected_rack_ids) = 1
  /\ HasRack(st, st.selected_rack_ids[1])

\* the tubes (from 1) of the selected rack of st that cover the canvas point p
TubesUnder(st, p) ==
  LET rack == RackById(st, st.selected_rack_ids[1])
      w == canvas_to_world(st, p[1], p[2])
      tubes == get_rack_dimensions_and_points(rack).tubes
  IN {i \in 1..Len(rack.tubes) : i <= Len(tubes) /\ tube_hit(tubes[i], w[1], w[2])}

\* st after a shift-click at p
ShiftClicked(st, p) == Delivered(on_canvas_shift_click(st, Ev(p, FALSE, TRUE)))

\* st after n shift-clicks at p
RECURSIVE ShiftClickedTimes(_, _, _)
ShiftClickedTimes(st, p, n) ==
  IF n = 0 THEN st ELSE ShiftClickedTimes(ShiftClicked(st, p), p, n - 1)

\* C15: a shift-click on a tube of the one selected rack gives that tube the
\* colour that follows its colour in the palette White, Yellow, Pink, Blue,
\* Orange, Green, White; every other tube, every other rack, the flow lines
\* and the tube connections stay as they are; as many clicks as the palette
\* has colours give the tube its first colour again.
C15_ShiftClickCyclesColor ==
  CyclesColors(planner) =>
    \A p \in CanvasPoints :
      TubesUnder(planner, p) # {} =>
        LET rack_id == planner.selected_rack_ids[1]
            i == MinOfSet(TubesUnder(planner, p))
            Recolored(r) == [r EXCEPT !.tubes[i].color = PaletteNext(@)]
            after == ShiftClicked(planner, p)
        IN /\ after.racks_on_canvas =
                [k \in 1..Len(planner.racks_on_canvas) |->
                   IF k = RackIndex(planner, rack_id)
                     THEN Recolored(planner.racks_on_canvas[k])
                     ELSE planner.racks_on_canvas[k]]
           /\ after.flow_lines_on_canvas = planner.flow_lines_on_canvas
           /\ after.tube_connections = planner.tube_connections
           /\ ShiftClickedTimes(planner, p, Len(Palette)).racks_on_canvas
                = planner.racks_on_canvas

\* a shift-click has turned a pink tube of the selected rack blue, in a
\* layout with another rack, a flow line and tube connections
C15_Witness ==
  /\ last_event = "on_canvas_shift_click"
  /\ CyclesColors(before)
  /\ \E p \in CanvasPoints : TubesUnder(before, p) # {} /\ planner = ShiftClicked(before, p)
  /\ \E k \in 1..Len(planner.racks_on_canvas), i \in 1..2 :
       /\ before.racks_on_canvas[k].tubes[i].color = "pink"
       /\ planner.racks_on_canvas[k].tubes[i].color = "lightblue"
  /\ Len(planner.racks_on_canvas) > 1
  /\ planner.flow_lines_on_canvas # <<>>
  /\ planner.tube_connections # <<>>

\* C16: every rack of the scene has as many tubes as its grid has places,
\* x_tubes * y_tubes.
C16_TubesFillGrid ==
  \A i \in 1..Len(planner.racks_on_canvas) :
    Len(planner.racks_on_canvas[i].tubes)
      = planner.racks_on_canvas[i].x_tubes * planner.racks_on_canvas[i].y_tubes

\* C17: no tube connection runs from a tube to that same tube, and in
\* connecting mode a click on the tube that is pending as the source adds no
\* connection and keeps the source pending.
C17_NoSelfConnection ==
  /\ \A i \in 1..Len(planner.tube_connections) :
       LET c == planner.tube_connections[i]
       IN <<c.source_rack_id, c.source_tube_idx>> # <<c.target_rack_id, c.target_tube_idx>>
  /\ (planner.connecting_tubes_mode /\ planner.first_tube_for_connection # <<>>) =>
       \A p \in CanvasPoints :
         get_tube_at_canvas_coords(planner, p[1], p[2]) = planner.first_tube_for_connection =>
           LET after == Delivered(on_canvas_press_connect_tubes_mode(
                                    planner, Ev(p, FALSE, FALSE), uuid_next))
           IN /\ after.tube_connections = planner.tube_connections
              /\ after.first_tube_for_connection = planner.first_tube_for_connection

\* the JSON value x converts to a number
Converts(x) == x.json = "number" \/ (x.json = "string" /\ x.v # <<>>)

\* the entry of a document is an object with the fields of a rack, each
\* count, position, diameter and rotation a number
WellFormed(entry) ==
  /\ entry.json = "dict"
  /\ {"id", "type", "x_tubes", "y_tubes", "pos_x", "pos_y"} \subseteq DOMAIN entry.v
  /\ "tubes" \in DOMAIN entry.v \/ "tube_colors" \in DOMAIN entry.v
  /\ \A k \in DOMAIN entry.v \cap {"x_tubes", "y_tubes", "pos_x", "pos_y", "tube_diameter",
                                     "rotation_angle"} : Converts(entry.v[k])

\* the rack entries of a document
RackEntries(doc) ==
  IF doc.json = "list" THEN doc.v
  ELSE IF doc.json = "dict" /\ "racks" \in DOMAIN doc.v THEN doc.v.racks
  ELSE <<>>

\* the ids of the well-formed rack entries of a document, in their order
WellFormedIds(doc) ==
  LET kept == SelectSeq(RackEntries(doc), WellFormed)
  IN [k \in 1..Len(kept) |-> kept[k].v.id]

\* the event delivered last was load_layout reading the file DamagedFiles[n]
LoadedFrom(n) ==
  /\ last_event = "load_layout"
  /\ planner = Delivered(load_layout(before, <<DamagedFiles[n]>>))

\* C19: load_layout of a document that is a list or an object leaves in the
\* scene the well-formed rack entries of the document, all of them and in
\* their order, whatever the other entries are.
C19_BadRackSkipped ==
  \A n \in 1..Len(DamagedFiles) :
    (LoadedFrom(n) /\ DamagedFiles[n].json \in {"list", "dict"}) =>
      [i \in 1..Len(planner.racks_on_canvas) |-> planner.racks_on_canvas[i].id]
        = WellFormedIds(DamagedFiles[n])

\* C20: a load_layout that reaches its except clause leaves the racks, the
\* flow lines, the tube connections, the selection, the view and the two
\* stacks as they were.
C20_FailedLoadChangesNothing ==
  \A n \in 1..Len(DamagedFiles) :
    (LoadedFrom(n) /\ load_layout_try(before, DamagedFiles[n]).raised) =>
      /\ Recorded(planner) = Recorded(before)
      /\ planner.undo_stack = before.undo_stack
      /\ planner.redo_stack = before.redo_stack

\* add_rack_to_list turns the entries of the form down
Rejected(form) ==
  \/ ~form.numeric
  \/ form.x_tubes <= 0 \/ form.y_tubes <= 0 \/ form.tube_diameter <= 2

\* the event delivered last was add_rack_to_list with the entries of form
AddedFrom(form) ==
  /\ last_event = "add_rack_to_list"
  /\ planner = Delivered(add_rack_to_list(before, form, uuid_next))

\* C18: add_rack_to_list with no columns, no rows, a tube diameter of 2 or
\* less, or an entry that is no number leaves the racks, the selection, the
\* tube connections, the undo stack and the redo stack as they were.
C18_InvalidRackRejected ==
  \A form \in RackForms :
    (AddedFrom(form) /\ Rejected(form)) =>
      /\ planner.racks_on_canvas = before.racks_on_canvas
      /\ planner.selected_rack_ids = before.selected_rack_ids
      /\ planner.selected_flow_line_id = before.selected_flow_line_id
      /\ planner.tube_connections = before.tube_connections
      /\ planner.undo_stack = before.undo_stack
      /\ planner.redo_stack = before.redo_stack

\* Add Rack has been turned down with racks on the canvas, one of them
\* selected, and with something to undo and something to redo
C18_Witness ==
  /\ \E form \in RackForms : AddedFrom(form) /\ Rejected(form)
  /\ planner.racks_on_canvas # <<>>
  /\ planner.selected_rack_ids # <<>>
  /\ planner.undo_stack # <<>>
  /\ planner.redo_stack # <<>>

----------------------------------------------------------------------------
(* Geometry kernel *)

\* the racks on the canvas, as a set
RacksOnCanvas == SeqToSet(planner.racks_on_canvas)

\* C21: for either rack type, each of the four rotations and every grid, the
\* rotated bounding box has the unrotated width and height at 0 and 180
\* degrees and the unrotated height and width at 90 and 270 degrees.
\* Lengths are exact here; the program's floats agree up to rounding.
C21_BoundingBoxSwaps ==
  \A rack \in RacksOnCanvas :
    LET g == get_rack_dimensions_and_points(rack)
    IN IF rack.rotation_angle \in {0, 180}
         THEN g.bbox_w = g.unrot_w /\ g.bbox_h = g.unrot_h
         ELSE g.bbox_w = g.unrot_h /\ g.bbox_h = g.unrot_w

\* a fan that is higher than wide lies on its side after a quarter turn
C21_Witness ==
  /\ last_event = "rotate_selected_racks_action"
  /\ \E rack \in RacksOnCanvas :
       LET g == get_rack_dimensions_and_points(rack)
       IN /\ rack.type = "Fan" /\ rack.rotation_angle = 270
          /\ g.unrot_w < g.unrot_h
          /\ g.bbox_w = g.unrot_h /\ g.bbox_h = g.unrot_w

\* the world centre of tube idx of a rack, in geometry units
TubeCentre(rack, idx) ==
  LET t == get_rack_dimensions_and_points(rack).tubes[idx + 1]
  IN <<t.cx, t.cy>>

\* the rack of the scenario: a crate of 3 x 2 tubes of diameter 20 at (50, 50),
\* not rotated
ScenarioRack(rack) ==
  /\ rack.type = "Crate" /\ rack.x_tubes = 3 /\ rack.y_tubes = 2
  /\ rack.tube_diameter = 20 /\ rack.pos_x = 50 /\ rack.pos_y = 50
  /\ rack.rotation_angle = 0

\* C22, as claimed: tube 0 of the scenario rack has its centre at (65, 65),
\* at pos plus the outer padding plus half a diameter.
C22_TubeZeroFromCorner ==
  \A rack \in RacksOnCanvas :
    ScenarioRack(rack) => TubeCentre(rack, 0) = <<65 * GU, 65 * GU>>

\* C22, amended: pos is the centre of the rack, so tube 0 of the scenario rack
\* has its centre at pos minus half the unrotated size (78 x 54) plus the
\* outer padding plus half a diameter: at (50 - 39 + 5 + 10, 50 - 27 + 5 + 10)
\* = (26, 38).
C22_TubeZeroFromCentre ==
  \A rack \in RacksOnCanvas :
    ScenarioRack(rack) =>
      /\ unrotated_rack_width(rack) = 78 * GU /\ unrotated_rack_height(rack) = 54 * GU
      /\ TubeCentre(rack, 0) = <<26 * GU, 38 * GU>>

C22_Witness ==
  /\ last_event = "add_rack_to_list"
  /\ \E rack \in RacksOnCanvas :
       ScenarioRack(rack) /\ TubeCentre(rack, 0) = <<26 * GU, 38 * GU>>

\* the tube indices the kernel emits a centre for, in the order emitted
EmittedIndices(rack) ==
  LET tubes == get_rack_dimensions_and_points(rack).tubes
  IN [k \in 1..Len(tubes) |-> tubes[k].idx]

\* one centre for each index 0..cols*rows-1
OneCentrePerIndex(rack) ==
  /\ Len(EmittedIndices(rack)) = rack.x_tubes * rack.y_tubes
  /\ \A i \in 0..(rack.x_tubes * rack.y_tubes - 1) :
       Cardinality({k \in 1..Len(EmittedIndices(rack)) : EmittedIndices(rack)[k] = i}) = 1

\* a and b are in the order of x and y
SameOrder(a, b, x, y) == (a < b <=> x < y) /\ (a = b <=> x = y)

\* tube i lies in column Col(i) and row Row(i): the centres of two tubes
\* are ordered along X as their columns and along Y as their rows
LiesOnGrid(rack, Col(_), Row(_)) ==
  \A i, j \in 0..(rack.x_tubes * rack.y_tubes - 1) :
    /\ SameOrder(Col(i), Col(j), TubeCentre(rack, i)[1], TubeCentre(rack, j)[1])
    /\ SameOrder(Row(i), Row(j), TubeCentre(rack, i)[2], TubeCentre(rack, j)[2])

\* C23, as claimed: for Crate and Fan the kernel emits one centre for each
\* index 0..cols*rows-1, and at rotation 0 tube i lies in column i mod cols
\* and row i div cols.
C23_RowMajorBothTypes ==
  \A rack \in RacksOnCanvas :
    /\ OneCentrePerIndex(rack)
    /\ rack.rotation_angle = 0 =>
         LET Col(i) == i % rack.x_tubes
             Row(i) == i \div rack.x_tubes
         IN LiesOnGrid(rack, Col, Row)

\* C23, amended: the kernel emits one centre for each index 0..cols*rows-1;
\* at rotation 0 tube i of a Crate lies in column i mod cols and row
\* i div cols (row-major), and tube i of a Fan lies in segment i div rows, as
\* tube i mod rows of the segment (segment-major): consecutive indices of
\* a segment step along Y and successive segments along X.
C23_RowMajorCrateSegmentMajorFan ==
  \A rack \in RacksOnCanvas :
    /\ OneCentrePerIndex(rack)
    /\ rack.rotation_angle = 0 =>
         LET Col(i) == IF rack.type = "Crate" THEN i % rack.x_tubes ELSE i \div rack.y_tubes
             Row(i) == IF rack.type = "Crate" THEN i \div rack.x_tubes ELSE i % rack.y_tubes
         IN LiesOnGrid(rack, Col, Row)

\* a fan of 2 segments of 3 tubes: tube 1 is below tube 0, tube 3 beside it
C23_Witness ==
  /\ last_event = "add_rack_to_list"
  /\ \E rack \in RacksOnCanvas :
       /\ rack.type = "Fan" /\ rack.x_tubes = 2 /\ rack.y_tubes = 3
       /\ rack.rotation_angle = 0
       /\ TubeCentre(rack, 1)[1] = TubeCentre(rack, 0)[1]
       /\ TubeCentre(rack, 1)[2] > TubeCentre(rack, 0)[2]
       /\ TubeCentre(rack, 3)[1] > TubeCentre(rack, 0)[1]
       /\ TubeCentre(rack, 3)[2] = TubeCentre(rack, 0)[2]

----------------------------------------------------------------------------
(* View transforms *)

ViewRange == (0 - MaxViewCoordinate)..MaxViewCoordinate

\* the world points whose canvas coordinates are whole numbers of geometry
\* steps in the view of st, and the canvas points whose world coordinates are
WorldPointsOf(st) ==
  {p \in ViewRange \X ViewRange :
     /\ ((p[1] - st.pan_offset_x) * st.zoom_level[1]) % st.zoom_level[2] = 0
     /\ ((p[2] - st.pan_offset_y) * st.zoom_level[1]) % st.zoom_level[2] = 0}

CanvasPointsOf(st) ==
  {q \in ViewRange \X ViewRange :
     /\ (q[1] * st.zoom_level[2]) % st.zoom_level[1] = 0
     /\ (q[2] * st.zoom_level[2]) % st.zoom_level[1] = 0}

WorldRoundTrip(st, p) ==
  LET q == world_to_canvas(st, p[1], p[2])
  IN canvas_to_world(st, q[1], q[2]) = p

CanvasRoundTrip(st, q) ==
  LET p == canvas_to_world(st, q[1], q[2])
  IN world_to_canvas(st, p[1], p[2]) = q

\* C24: in every view (zoom > 0, any pan) canvas_to_world undoes
\* world_to_canvas on every world point and world_to_canvas undoes
\* canvas_to_world on every canvas point.  Coordinates are exact here; the
\* program's floats agree up to rounding.
C24_ViewRoundTrip ==
  /\ \A p \in WorldPointsOf(planner) : WorldRoundTrip(planner, p)
  /\ \A q \in CanvasPointsOf(planner) : CanvasRoundTrip(planner, q)

\* a panned view at the upper zoom limit, and a point the view moves
C24_Witness ==
  /\ last_event = "on_mouse_wheel"
  /\ planner.zoom_level = MAX_ZOOM /\ planner.pan_offset_x # 0
  /\ \E p \in WorldPointsOf(planner) :
       /\ world_to_canvas(planner, p[1], p[2]) # p
       /\ world_to_canvas(planner, p[1], p[2]) # <<0, 0>>
       /\ WorldRoundTrip(planner, p)
  /\ \E q \in CanvasPointsOf(planner) :
       /\ canvas_to_world(planner, q[1], q[2]) # q
       /\ q # <<0, 0>>
       /\ CanvasRoundTrip(planner, q)

\* the wheel has turned by delta with the pointer at cursor
WheelTurned(cursor, delta) ==
  /\ last_event = "on_mouse_wheel"
  /\ wheel_zoom(before.zoom_level, WheelEvent(cursor, delta)) \in ViewZoomLevels
  /\ planner = Delivered(on_mouse_wheel(before, WheelEvent(cursor, delta)))

\* C25: a zoom step in or out, clamped at MIN_ZOOM or MAX_ZOOM or not, leaves
\* the world point under the cursor where it was.
C25_ZoomAboutCursor ==
  \A cursor \in WheelCursors, delta \in {-1, 1} :
    WheelTurned(cursor, delta) =>
      canvas_to_world(planner, cursor[1], cursor[2])
        = canvas_to_world(before, cursor[1], cursor[2])

\* a step in from 4.5 is clamped at MAX_ZOOM and moves the pan offset
C25_Witness ==
  \E cursor \in WheelCursors :
    /\ WheelTurned(cursor, 1)
    /\ before.zoom_level = <<9, 2>> /\ planner.zoom_level = MAX_ZOOM
    /\ planner.pan_offset_x # before.pan_offset_x
    /\ canvas_to_world(planner, cursor[1], cursor[2])
         = canvas_to_world(before, cursor[1], cursor[2])

----------------------------------------------------------------------------
(* Dragging racks *)

\* C26: every release of button 1 that on_canvas_release handles ends the
\* drag gesture, whatever happened between the press and the release: no
\* rack is being dragged, no start position is kept and no snapshot is
\* pending.
C26_ReleaseEndsGesture ==
  last_event = "on_canvas_release" =>
    /\ planner.dragging_rack_id = NoId
    /\ planner.drag_start_positions = {}
    /\ planner.drag_operation_pending_undo_state = <<>>

\* the state captured by the press that began the drag under way
DragPressState == before.drag_operation_pending_undo_state[1]

\* the event delivered last was a drag event of a group drag: button 1 went
\* down on a rack that was one of two or more selected racks
GroupDragged ==
  /\ last_event = "on_canvas_drag"
  /\ before.dragging_rack_id # NoId
  /\ before.drag_operation_pending_undo_state # <<>>
  /\ Len(DragPressState.selected_rack_ids) >= 2
  /\ InSeq(before.dragging_rack_id, DragPressState.selected_rack_ids)
  /\ HasRack(planner, before.dragging_rack_id)

\* the displacement of rack rack_id since the press
MovedBy(rack_id) ==
  <<PositionIn(planner.racks_on_canvas, rack_id)[1] - PositionIn(DragPressState.racks, rack_id)[1],
    PositionIn(planner.racks_on_canvas, rack_id)[2] - PositionIn(DragPressState.racks, rack_id)[2]>>

\* C27: after every drag event of a group drag, every rack that was selected
\* at the press is at its position of the press plus the displacement of the
\* rack the pointer went down on.
C27_GroupMovesTogether ==
  GroupDragged =>
    \A k \in 1..Len(DragPressState.selected_rack_ids) :
      /\ HasRack(planner, DragPressState.selected_rack_ids[k])
      /\ MovedBy(DragPressState.selected_rack_ids[k]) = MovedBy(before.dragging_rack_id)

\* button 1 is down on a rack and its motion is bound to on_canvas_drag
DragUnderWay ==
  /\ tk.b1 /\ planner.posted_menu = ""
  /\ planner.bind_b1_motion = "on_canvas_drag"
  /\ planner.dragging_rack_id # NoId

\* the planner once the drag event with the pointer at p has been handled
DraggedTo(st, p) == Delivered(on_canvas_drag(st, Ev(p, FALSE, FALSE)))

\* where the racks are
PositionsOf(st) ==
  [i \in 1..Len(st.racks_on_canvas) |->
     <<st.racks_on_canvas[i].id, st.racks_on_canvas[i].pos_x, st.racks_on_canvas[i].pos_y>>]

\* C28: during a drag, the racks are after a drag event where the position
\* of the pointer and the state of the press put them, whichever drag event
\* was delivered before: the same event delivered twice (q = p) leaves them
\* where delivering it once does, and an event delivered in between (q # p)
\* changes nothing, with the grid snap and the rack snap on or off.
C28_DragIdempotent ==
  DragUnderWay =>
    \A p, q \in CanvasPoints :
      PositionsOf(DraggedTo(DraggedTo(planner, q), p)) = PositionsOf(DraggedTo(planner, p))

\* the drag event with the pointer at p has just moved the one selected
\* rack, with the grid snap on, a grid size above zero and the rack snap off
GridDragged(p) ==
  /\ last_event = "on_canvas_drag"
  /\ before.snap_to_grid_enabled /\ ~before.snap_to_racks_enabled
  /\ before.grid_size_var # <<>> /\ before.grid_size_var[1] > 0
  /\ before.dragging_rack_id # NoId
  /\ before.selected_rack_ids = <<before.dragging_rack_id>>
  /\ before.selected_flow_line_id = NoId /\ ~before.is_panning
  /\ planner = DraggedTo(before, p)

\* the position on_canvas_drag proposes: the world point under the pointer
\* less the offset of the press
ProposedAt(p) == less_drag_offset(before, canvas_to_world(before, p[1], p[2]))

\* a is a multiple of g and no multiple of g is nearer to x
NearestMultiple(a, g, x) == a % g = 0 /\ 2 * Abs(a - x) <= g

\* C29: with the grid snap on, a grid size g > 0 and the rack snap off, a drag
\* event of the one selected rack leaves its pos_x and pos_y each on
\* a multiple of g, and on one that is nearest to the proposed position.
C29_GridSnapNearestMultiple ==
  \A p \in CanvasPoints :
    GridDragged(p) =>
      LET rack == RackById(planner, before.dragging_rack_id)
          g == before.grid_size_var[1]
      IN /\ NearestMultiple(rack.pos_x, g, ProposedAt(p)[1])
         /\ NearestMultiple(rack.pos_y, g, ProposedAt(p)[2])

\* the rack is proposed to (50, 50) on a grid of 30 and put on (60, 60)
C29_Witness ==
  \E p \in CanvasPoints :
    /\ GridDragged(p)
    /\ before.grid_size_var = <<30>>
    /\ ProposedAt(p) = <<50, 50>>
    /\ RackById(planner, before.dragging_rack_id).pos_x = 60
    /\ RackById(planner, before.dragging_rack_id).pos_y = 60

\* what on_canvas_drag hands to _snap_rack as the primary id of a group, and
\* the drag group that makes: the selected racks if more than one is
\* selected, the dragged rack alone if not
SnapGroupId(st) == IF Len(st.selected_rack_ids) > 1 THEN st.dragging_rack_id ELSE NoId

DragGroup(st) ==
  IF Len(st.selected_rack_ids) > 1 THEN SeqToSet(st.selected_rack_ids)
  ELSE {st.dragging_rack_id}

\* the racks outside the drag group
SnapTargets(st) == {r \in SeqToSet(st.racks_on_canvas) : r.id \notin DragGroup(st)}

\* the bounding box of a rack, and of the dragged rack put at pos
BoxOf(rack) == outline_box(get_rack_dimensions_and_points(rack).outline)

BoxAt(st, pos) ==
  BoxOf([RackById(st, st.dragging_rack_id) EXCEPT !.pos_x = pos[1], !.pos_y = pos[2]])

VerticalEdges(box) == {box.min_x, box.max_x}
HorizontalEdges(box) == {box.min_y, box.max_y}

\* an edge of E is closer than SNAP_THRESHOLD / zoom_level to an edge of F
Near(st, E, F) == \E e \in E, f \in F : Abs(e - f) < ByZoom(st, SNAP_THRESHOLD) * GU

\* what _snap_rack returns for the dragged rack proposed to pos
SnappedFrom(st, pos) ==
  LET r == snap_rack(st, RackById(st, st.dragging_rack_id), pos[1], pos[2], SnapGroupId(st))
  IN <<r[1], r[2]>>

\* one axis of C30: Edges picks the edges across the axis, k the coordinate
SnapsOnAxis(st, pos, Edges(_), k) ==
  IF \E t \in SnapTargets(st) : Near(st, Edges(BoxAt(st, pos)), Edges(BoxOf(t)))
    THEN \E t \in SnapTargets(st) :
           /\ Near(st, Edges(BoxAt(st, pos)), Edges(BoxOf(t)))
           /\ Edges(BoxAt(st, SnappedFrom(st, pos))) \cap Edges(BoxOf(t)) # {}
    ELSE SnappedFrom(st, pos)[k] = pos[k]

\* the position on_canvas_drag would propose with the pointer at p
ProposedNow(p) == less_drag_offset(planner, canvas_to_world(planner, p[1], p[2]))

----------------------------------------------------------------------------
(* What a press selects *)

\* the press of the last event, taken without Ctrl or Shift at canvas point p
PlainPress(p) ==
  /\ last_event = "on_canvas_press"
  /\ ~before.drawing_flow_line_mode /\ ~before.connecting_tubes_mode
  /\ planner = Delivered(on_canvas_press(before, Ev(p, FALSE, FALSE)))

\* the world point under canvas point p before the press
PressedPoint(p) == canvas_to_world(before, p[1], p[2])

\* the ids of the flow lines whose halo holds the pressed point
LinesAt(p) ==
  {l.id : l \in {m \in SeqToSet(before.flow_lines_on_canvas) :
                   line_hit(before, m, PressedPoint(p)[1], PressedPoint(p)[2])}}

\* the point lies strictly inside, or on the edge of, the rack's bounding
\* box: the outline of a rack turned by a multiple of 90 degrees
InsideBox(rack, w) ==
  /\ BoxOf(rack).min_x < w[1] * GU /\ w[1] * GU < BoxOf(rack).max_x
  /\ BoxOf(rack).min_y < w[2] * GU /\ w[2] * GU < BoxOf(rack).max_y

OnBoxEdge(rack, w) ==
  /\ ~InsideBox(rack, w)
  /\ BoxOf(rack).min_x <= w[1] * GU /\ w[1] * GU <= BoxOf(rack).max_x
  /\ BoxOf(rack).min_y <= w[2] * GU /\ w[2] * GU <= BoxOf(rack).max_y

\* the positions in draw order of the racks whose outline holds the point
RacksAt(p) ==
  {i \in 1..Len(before.racks_on_canvas) :
     InsideBox(before.racks_on_canvas[i], PressedPoint(p))}

OffEveryEdge(p) ==
  \A i \in 1..Len(before.racks_on_canvas) :
    ~OnBoxEdge(before.racks_on_canvas[i], PressedPoint(p))

\* C31: a press without modifiers on a flow line that crosses a rack selects
\* the line and neither selects nor drags a rack; a press inside several
\* racks and on no line selects and drags the rack latest in draw order; a
\* press on neither clears the rack selection and the line selection
C31_HitTestPriority ==
  \A p \in CanvasPoints :
    PlainPress(p) /\ OffEveryEdge(p) =>
      /\ LinesAt(p) # {} /\ RacksAt(p) # {} =>
            /\ planner.selected_flow_line_id \in LinesAt(p)
            /\ planner.selected_rack_ids = <<>>
            /\ planner.dragging_rack_id = NoId
      /\ LinesAt(p) = {} /\ RacksAt(p) # {} =>
            /\ planner.selected_rack_ids =
                 <<before.racks_on_canvas[MaxOfSet(RacksAt(p))].id>>
            /\ planner.dragging_rack_id = before.racks_on_canvas[MaxOfSet(RacksAt(p))].id
            /\ planner.selected_flow_line_id = NoId
      /\ LinesAt(p) = {} /\ RacksAt(p) = {} =>
            /\ planner.selected_rack_ids = <<>>
            /\ planner.selected_flow_line_id = NoId

\* a press inside two racks lying over each other, a flow line selected
\* before, has selected and grabbed the upper rack
C31_Witness ==
  \E p \in CanvasPoints :
    /\ PlainPress(p) /\ OffEveryEdge(p)
    /\ LinesAt(p) = {} /\ Cardinality(RacksAt(p)) = 2
    /\ before.selected_flow_line_id # NoId
    /\ planner.selected_rack_ids = <<106>> /\ planner.dragging_rack_id = 106

\* a press on the flow line that crosses the fan has selected the line
C31_WitnessLine ==
  \E p \in CanvasPoints :
    /\ PlainPress(p) /\ OffEveryEdge(p)
    /\ LinesAt(p) # {} /\ RacksAt(p) # {}
    /\ planner.selected_flow_line_id = 107

----------------------------------------------------------------------------
(* The tube dialogs and the geometry kernel *)

\* the cell the dialogs give tube idx of the rack, opened as
\* open_tube_recolor_dialog and open_tube_type_dialog open them: at the
\* rack's rotation_angle
DialogCell(rack, idx) ==
  dialog_visual_cell(rack.type, rack.x_tubes, rack.y_tubes, rack.rotation_angle, idx)

TubeIndices(rack) == 0..(rack.x_tubes * rack.y_tubes - 1)

\* left of in the dialog exactly when the centre has the smaller X, above
\* exactly when it has the smaller Y
DialogAgrees(rack) ==
  \A i, j \in TubeIndices(rack) :
    /\ DialogCell(rack, i)[1] < DialogCell(rack, j)[1]
          <=> TubeCentre(rack, i)[1] < TubeCentre(rack, j)[1]
    /\ DialogCell(rack, i)[2] < DialogCell(rack, j)[2]
          <=> TubeCentre(rack, i)[2] < TubeCentre(rack, j)[2]

\* C32: for either rack type and each of the four rotations, the cell the
\* recolor and type dialogs give a tube agrees with the kernel's centres:
\* tube i is left of tube j in the dialog exactly when its centre has the
\* smaller X, and above exactly when it has the smaller Y.
C32_DialogAgreesWithKernel == \A rack \in RacksOnCanvas : DialogAgrees(rack)

\* what the dialogs do keep: they agree with the kernel at 0 and 180 degrees,
\* and at 90 and 270 degrees they show the arrangement the kernel produces
\* for the opposite quarter turn
C32_DialogAgreesUpToHalfTurn ==
  \A rack \in RacksOnCanvas :
    IF rack.rotation_angle \in {0, 180} THEN DialogAgrees(rack)
    ELSE \A i, j \in TubeIndices(rack) :
           /\ DialogCell(rack, i)[1] < DialogCell(rack, j)[1]
                 <=> TubeCentre(rack, i)[1] > TubeCentre(rack, j)[1]
           /\ DialogCell(rack, i)[2] < DialogCell(rack, j)[2]
                 <=> TubeCentre(rack, i)[2] > TubeCentre(rack, j)[2]

----------------------------------------------------------------------------
(* The zoom level *)

\* C33: in every reachable state MIN_ZOOM <= zoom_level <= MAX_ZOOM, after
\* any sequence of zoom steps, pans, view resets, undos, redos and loads of a
\* layout.
C33_ZoomWithinLimits ==
  /\ ~FracLess(planner.zoom_level, MIN_ZOOM)
  /\ ~FracLess(MAX_ZOOM, planner.zoom_level)

\* what does hold: a zoom step and a view reset leave the zoom level
\* within the limits, wherever it was before
C33_WheelAndResetWithinLimits ==
  last_event \in {"on_mouse_wheel", "reset_canvas_view"} => C33_ZoomWithinLimits

----------------------------------------------------------------------------
(* The fuse estimate *)

FracEq(a, b) == a[1] * b[2] = b[1] * a[2]

\* the values of f over the set S added up
RECURSIVE FracSumOver(_, _)
FracSumOver(f, S) ==
  IF S = {} THEN <<0, 1>>
  ELSE LET x == CHOOSE y \in S : TRUE
       IN FracAdd(f[x], FracSumOver(f, S \ {x}))

\* the per-colour fuse totals of the scene, added up
ColourTotalsSum ==
  FracSumOver(fuse_lengths_by_color_value(planner),
              DOMAIN fuse_lengths_by_color_value(planner))

\* the closed-form fuse totals of the racks of the scene, added up
RackTotalsSum ==
  FracSum([i \in 1..Len(planner.racks_on_canvas) |->
             current_rack_total_fuse_length_inches(planner.racks_on_canvas[i])])

\* the closed form of a rack: 70 inches times cols * rows / 25 for a crate,
\* lead, 3 inches for every tube after the first of each segment, and tail
\* for a fan
ClosedFormTotal(rack) ==
  IF rack.type = "Crate" THEN <<70 * rack.x_tubes * rack.y_tubes, 25>>
  ELSE <<3 + 3 * rack.x_tubes * (rack.y_tubes - 1) + 3, 1>>

\* the number of tubes of the rack that carry the colour
TubesOfColour(rack, color) ==
  Cardinality({k \in 1..Len(rack.tubes) : rack.tubes[k].color = color})

\* C34, as claimed: every rack contributes its closed-form total, spread
\* evenly over its tubes into the totals of their colours, so that the
\* per-colour totals add up to the sum of the racks' closed-form totals.
C34_ColourTotalsAreRackTotals ==
  /\ \A rack \in RacksOnCanvas :
       FracEq(current_rack_total_fuse_length_inches(rack), ClosedFormTotal(rack))
  /\ FracEq(ColourTotalsSum, RackTotalsSum)

\* C34, amended: every entry of a rack's tube list adds 0.9
\* (FUSE_LENGTH_SCALE_FACTOR) of the rack's closed-form total divided by
\* cols * rows to the total of its colour, so that the per-colour totals add
\* up to 0.9 of the racks' closed-form totals, each weighted by
\* len(tubes) / (cols * rows): to 0.9 of their sum when every tube list has
\* cols * rows entries.  Sums are exact here; the program's floats agree up
\* to rounding.
C34_ColourTotalsAreScaledRackTotals ==
  /\ \A rack \in RacksOnCanvas :
       FracEq(current_rack_total_fuse_length_inches(rack), ClosedFormTotal(rack))
  /\ \A color \in DOMAIN fuse_lengths_by_color_value(planner) :
       FracEq(fuse_lengths_by_color_value(planner)[color],
              FracSum([i \in 1..Len(planner.racks_on_canvas) |->
                LET rack == planner.racks_on_canvas[i]
                IN FracMul(<<9 * TubesOfColour(rack, color),
                             10 * rack.x_tubes * rack.y_tubes>>,
                           ClosedFormTotal(rack))]))
  /\ FracEq(ColourTotalsSum,
            FracSum([i \in 1..Len(planner.racks_on_canvas) |->
              LET rack == planner.racks_on_canvas[i]
              IN FracMul(<<9 * Len(rack.tubes), 10 * rack.x_tubes * rack.y_tubes>>,
                         ClosedFormTotal(rack))]))
  /\ (\A rack \in RacksOnCanvas : Len(rack.tubes) = rack.x_tubes * rack.y_tubes)
       => FracEq(ColourTotalsSum, FracMul(<<9, 10>>, RackTotalsSum))

\* a crate and a fan on the canvas, their tubes of two colours
C34_Witness ==
  /\ \E a, b \in RacksOnCanvas : a.type = "Crate" /\ b.type = "Fan"
  /\ Cardinality(DOMAIN fuse_lengths_by_color_value(planner)) >= 2
  /\ \A color \in DOMAIN fuse_lengths_by_color_value(planner) :
       fuse_lengths_by_color_value(planner)[color][1] > 0

----------------------------------------------------------------------------
(* Both history stacks together *)

\* C35: in every reachable state the undo stack and the redo stack hold at
\* most MAX_UNDO_STEPS = 50 entries together.
C35_HistoryBounded ==
  Len(planner.undo_stack) + Len(planner.redo_stack) <= MAX_UNDO_STEPS

\* a redo has put an entry back onto the undo stack while both stacks
\* together hold 50 entries
C35_Witness ==
  /\ last_event = "redo_action"
  /\ Len(planner.undo_stack) = Len(before.undo_stack) + 1
  /\ planner.redo_stack # <<>>
  /\ Len(planner.undo_stack) + Len(planner.redo_stack) = MAX_UNDO_STEPS

----------------------------------------------------------------------------
(* Adding a rack while a mode is on *)

\* the last event was add_rack_to_list and it appended a rack
RackAdded ==
  /\ last_event = "add_rack_to_list"
  /\ Len(planner.racks_on_canvas) = Len(before.racks_on_canvas) + 1

\* C36: after a successful add_rack_to_list, whatever mode was on, the new
\* rack is in the scene and is the only selected item, and neither the
\* drawing mode nor the connecting mode is on.
C36_AddLeavesModes ==
  RackAdded =>
    LET rack == planner.racks_on_canvas[Len(planner.racks_on_canvas)]
    IN /\ rack.id \notin {r.id : r \in SeqToSet(before.racks_on_canvas)}
       /\ planner.selected_rack_ids = <<rack.id>>
       /\ planner.selected_flow_line_id = NoId
       /\ ~planner.drawing_flow_line_mode
       /\ ~planner.connecting_tubes_mode

\* what the handler does to the modes: the connecting mode is off, and the
\* drawing mode is flipped if a mode was on, so that an add in connecting
\* mode ends in drawing mode, which has emptied the selection
C36_AddFlipsDrawingMode ==
  RackAdded =>
    /\ ~planner.connecting_tubes_mode
    /\ planner.drawing_flow_line_mode
         = (before.connecting_tubes_mode /\ ~before.drawing_flow_line_mode)
    /\ planner.drawing_flow_line_mode => planner.selected_rack_ids = <<>>

----------------------------------------------------------------------------
(* Drawing a flow line *)

\* the last event was a click at canvas point p handled by
\* on_canvas_press_line_mode in drawing mode
LineClicked(p) ==
  /\ last_event = "on_canvas_press_line_mode"
  /\ before.drawing_flow_line_mode
  /\ \E uuid4 \in {uuid_next - 1, uuid_next} :
       planner = Delivered(on_canvas_press_line_mode(before, Ev(p, FALSE, FALSE), uuid4))

\* the click at p lies at least 5 pixels from the start point: the distance
\* on the canvas is the distance in the world times zoom_level
FarFromStart(p) ==
  LET w == canvas_to_world(before, p[1], p[2])
      dx == w[1] - before.flow_line_start_point[1]
      dy == w[2] - before.flow_line_start_point[2]
  IN (dx * dx + dy * dy) * before.zoom_level[1] * before.zoom_level[1]
       >= 5 * 5 * before.zoom_level[2] * before.zoom_level[2]

\* C37: in drawing mode the first click stores the start point and nothing
\* else; a second click at least 5 pixels away adds exactly one flow line
\* with the two world points as its ends, clears the start point and
\* switches the drawing mode off; a second click nearer than 5 pixels adds
\* no line and keeps the start point and the mode.
C37_TwoClicksDrawLine ==
  \A p \in LinePoints :
    LineClicked(p) =>
      LET w == canvas_to_world(before, p[1], p[2])
          start == before.flow_line_start_point
          n == Len(before.flow_lines_on_canvas)
      IN IF start = <<>>
           THEN planner = [before EXCEPT !.flow_line_start_point = w]
         ELSE IF FarFromStart(p)
           THEN /\ Len(planner.flow_lines_on_canvas) = n + 1
                /\ SubSeq(planner.flow_lines_on_canvas, 1, n) = before.flow_lines_on_canvas
                /\ planner.flow_lines_on_canvas[n + 1].x1 = start[1]
                /\ planner.flow_lines_on_canvas[n + 1].y1 = start[2]
                /\ planner.flow_lines_on_canvas[n + 1].x2 = w[1]
                /\ planner.flow_lines_on_canvas[n + 1].y2 = w[2]
                /\ planner.flow_line_start_point = <<>>
                /\ ~planner.drawing_flow_line_mode
         ELSE /\ planner.flow_lines_on_canvas = before.flow_lines_on_canvas
              /\ planner.flow_line_start_point = start
              /\ planner.drawing_flow_line_mode

\* with the view zoomed out to 1/2, a second click less than 5 pixels but
\* more than 5 world units from the start point has been refused
C37_Witness ==
  \E p \in LinePoints :
    /\ LineClicked(p)
    /\ before.zoom_level = <<1, 2>>
    /\ before.flow_line_start_point # <<>>
    /\ ~FarFromStart(p)
    /\ LET w == canvas_to_world(before, p[1], p[2])
           dx == w[1] - before.flow_line_start_point[1]
           dy == w[2] - before.flow_line_start_point[2]
       IN dx * dx + dy * dy > 5 * 5
    /\ planner.flow_lines_on_canvas = before.flow_lines_on_canvas
    /\ planner.drawing_flow_line_mode

\* a second click exactly 5 pixels from the first has added a line
C37_WitnessLine ==
  \E p \in LinePoints :
    /\ LineClicked(p)
    /\ before.flow_line_start_point # <<>>
    /\ LET w == canvas_to_world(before, p[1], p[2])
           dx == w[1] - before.flow_line_start_point[1]
           dy == w[2] - before.flow_line_start_point[2]
       IN (dx * dx + dy * dy) * before.zoom_level[1] * before.zoom_level[1]
            = 5 * 5 * before.zoom_level[2] * before.zoom_level[2]
    /\ Len(planner.flow_lines_on_canvas) = Len(before.flow_lines_on_canvas) + 1

----------------------------------------------------------------------------
(* The rack about its position *)

\* C38: for either rack type, each of the four rotations and every grid and
\* diameter, pos is the midpoint of the bounding box of the rotated outline
\* and every tube centre lies strictly inside the rotated outline.  Lengths
\* are exact here; the program's floats agree up to rounding.
C38_RackCentredOnPos ==
  \A rack \in RacksOnCanvas :
    /\ BoxOf(rack).min_x + BoxOf(rack).max_x = 2 * rack.pos_x * GU
    /\ BoxOf(rack).min_y + BoxOf(rack).max_y = 2 * rack.pos_y * GU
    /\ \A idx \in TubeIndices(rack) :
         /\ BoxOf(rack).min_x < TubeCentre(rack, idx)[1]
         /\ TubeCentre(rack, idx)[1] < BoxOf(rack).max_x
         /\ BoxOf(rack).min_y < TubeCentre(rack, idx)[2]
         /\ TubeCentre(rack, idx)[2] < BoxOf(rack).max_y

\* a fan of 3 x 2 tubes of diameter 3 turned to 270 degrees
C38_Witness ==
  \E rack \in RacksOnCanvas :
    /\ rack.type = "Fan" /\ rack.x_tubes = 3 /\ rack.y_tubes = 2
    /\ rack.tube_diameter = 3 /\ rack.rotation_angle = 270

----------------------------------------------------------------------------
(* The discs a click is tested against *)

\* the hit-test discs of tubes i and j of the rack have no point in common:
\* the centres lie further apart than the two radii together
DiscsApart(rack, i, j) ==
  LET a == get_rack_dimensions_and_points(rack).tubes[i + 1]
      b == get_rack_dimensions_and_points(rack).tubes[j + 1]
      dx == a.cx - b.cx
      dy == a.cy - b.cy
  IN 4 * (dx * dx + dy * dy) > (a.dia + b.dia) * (a.dia + b.dia)

\* C39: for every rack add_rack_to_list accepts, the hit-test discs of two
\* distinct tubes of the rack never overlap, so that a click is attributed
\* to at most one tube.
C39_HitDiscsDisjoint ==
  \A rack \in RacksOnCanvas :
    \A i, j \in TubeIndices(rack) : i # j => DiscsApart(rack, i, j)

\* what does hold: the discs of a rack are disjoint if its tubes are at
\* least as wide as the smallest effective diameter
C39_WideTubesDisjoint ==
  \A rack \in RacksOnCanvas :
    rack.tube_diameter >= MIN_EFFECTIVE_DIAMETER =>
      \A i, j \in TubeIndices(rack) : i # j => DiscsApart(rack, i, j)

====
